---- MODULE Spec2Model ----
(***************************************************************************)
(* State-machine model of the crate cliff3_util.  encrypt_util.rs:         *)
(* validate_salt, aes_encrypt, aes_decrypt, AESResult (Spec),              *)
(* make_sha_hash, make_sha_hash_string (SpecHash), generate_rsa_keypair,   *)
(* rsa_encrypt, rsa_encrypt_without_key, rsa_decrypt, RSAResult (SpecRsa), *)
(* and the same functions called by two threads at once (SpecConc).        *)
(* error.rs and CryptoError: the error values (SpecError).  io_util.rs:    *)
(* DirectoryDateType::generate_path_string (SpecPath).  string_util.rs:    *)
(* extract_initial_consonant, separate_simple_consonant_vowel and          *)
(* separate_consonant_vowel_completely (SpecHangul).                       *)
(*                                                                         *)
(* The crate's functions are pure; the state of the model is what a caller *)
(* observes: the last call with its arguments, its outcome and the         *)
(* primitive calls it made, and one result the caller has kept.  env is    *)
(* the library configuration of the process, cfg what the calling          *)
(* application works with (cipher strength, secret and repeat count for    *)
(* AES; key size, generator state and its own key pair for RSA).           *)
(*                                                                         *)
(* The primitives the crate calls are modelled by their documented         *)
(* behaviour: bytes_to_key is EVP_BytesToKey, encrypt/decrypt are CBC with *)
(* PKCS#7 padding, the sha2 hashers are streaming digests, public_encrypt  *)
(* and private_decrypt pad and unpad by PKCS#1 v1.5.  The MD5 and SHA-2    *)
(* compression functions, the AES block permutation and the RSA arithmetic *)
(* themselves are replaced by mixing functions and keyed invertible maps;  *)
(* all lengths (salt 8, block 16, key 16/32, digests 16/32/64, moduli      *)
(* 128..1024) are the real ones and bytes are 0..255.                      *)
(***************************************************************************)
EXTENDS Integers, Sequences, FiniteSets, TLC

VARIABLES env, cfg, kept, last

vars == <<env, cfg, kept, last>>

(***************************************************************************)
(* Bytes and Option values                                                 *)
(***************************************************************************)
\* Option<T>: None is the empty tuple, Some(v) the 1-tuple holding v.
None == <<>>

Some(v) == <<v>>

is_some(o) == Len(o) = 1

unwrap(o) == o[1]

ByteMod == 256

RECURSIVE BitXor(_, _)
BitXor(a, b) ==
    IF a = 0 THEN b
    ELSE IF b = 0 THEN a
    ELSE (((a % 2) + (b % 2)) % 2) + (2 * BitXor(a \div 2, b \div 2))

\* A function on 1..n as a sequence.
AsSeq(f) == f \o <<>>

\* Bitwise xor of two bytes, a nibble at a time from the table of BitXor.
NibbleXor == [a \in 0..15 |-> [b \in 0..15 |-> BitXor(a, b)]]

ByteXor(a, b) == (16 * NibbleXor[a \div 16][b \div 16]) + NibbleXor[a % 16][b % 16]

XorBlock(x, y) == AsSeq([i \in 1..Len(x) |-> ByteXor(x[i], y[i])])

Take(s, n) == SubSeq(s, 1, n)

Drop(s, n) == SubSeq(s, n + 1, Len(s))

(***************************************************************************)
(* usize and the cast `repeat_count as i32`                                *)
(***************************************************************************)
\* A usize is four 16-bit limbs, least significant first (64 bits).
Limb == 65536

HalfLimb == 32768

usize(n) == <<n % Limb, n \div Limb, 0, 0>>

\* `x as i32`: the low 32 bits of x read as two's complement.
as_i32(u) ==
    IF u[2] >= HalfLimb THEN ((u[2] - Limb) * Limb) + u[1]
    ELSE (u[2] * Limb) + u[1]

(***************************************************************************)
(* Primitives of the linked OpenSSL                                        *)
(***************************************************************************)
AES_TYPES == {"AES_128", "AES_256"}

PKCS5_SALT_LEN == 8

BLOCK_SIZE == 16

IV_LEN == 16

MD5_LEN == 16

KEY_LEN_128 == 16

KEY_LEN_256 == 32

\* Cipher::aes_128_cbc() / Cipher::aes_256_cbc(): the cipher's key length.
key_len(cipher) == IF cipher = "AES_128" THEN KEY_LEN_128 ELSE KEY_LEN_256

\* Stand-in for the MD5 digest: a deterministic function of the whole input
\* with a 16-byte output.
RECURSIVE Absorb(_, _, _)
Absorb(data, i, acc) ==
    IF i > Len(data) THEN acc
    ELSE Absorb(data, i + 1, ((acc * 33) + data[i] + 1) % Limb)

Md5(data) ==
    LET s == Absorb(data, 1, 5381 % Limb)
    IN  AsSeq([i \in 1..MD5_LEN |->
            (((s % ByteMod) * ((2 * i) + 1)) + (s \div ByteMod) + (i * i) + Len(data)) % ByteMod])

\* for (i = 1; i < count; i++) md_buf = MD(md_buf)
RECURSIVE Rehash(_, _, _)
Rehash(md_buf, i, count) ==
    IF i < count THEN Rehash(Md5(md_buf), i + 1, count) ELSE md_buf

\* The for(;;) loop of EVP_BytesToKey: one digest block per pass, each block
\* MD(previous block || data || salt) re-digested while i < count, appended to
\* the key and IV material until both are full.
RECURSIVE KeyIvLoop(_, _, _, _, _, _)
KeyIvLoop(acc, md_prev, data, salt, count, need) ==
    LET md_buf == Rehash(Md5(md_prev \o data \o salt), 1, count)
        filled == acc \o md_buf
    IN  IF Len(filled) >= need THEN Take(filled, need)
        ELSE KeyIvLoop(filled, md_buf, data, salt, count, need)

\* openssl::pkcs5::bytes_to_key(cipher, md5, data, salt, count): a KeyIvPair,
\* or an ErrorStack when the library cannot run the digest.
bytes_to_key(e, cipher, data, salt, count) ==
    IF e = "kdf_error" THEN [ok |-> FALSE, key |-> <<>>, iv |-> <<>>]
    ELSE LET nkey == key_len(cipher)
             salt_bytes == IF is_some(salt) THEN unwrap(salt) ELSE <<>>
             material == KeyIvLoop(<<>>, <<>>, data, salt_bytes, count, nkey + IV_LEN)
         IN  [ok |-> TRUE, key |-> Take(material, nkey), iv |-> Drop(material, nkey)]

\* Stand-in for the AES block permutation under `key`: a keyed bijection on
\* 16-byte blocks (xor with the first key half, add the last key half, rotate).
KeyLo(key) == Take(key, BLOCK_SIZE)

KeyHi(key) == Drop(key, Len(key) - BLOCK_SIZE)

RotL(b) == AsSeq([i \in 1..Len(b) |-> b[(i % Len(b)) + 1]])

RotR(b) == AsSeq([i \in 1..Len(b) |-> b[((i + Len(b) - 2) % Len(b)) + 1]])

BlockEncrypt(key, b) ==
    LET lo == KeyLo(key)
        hi == KeyHi(key)
    IN  RotL(AsSeq([i \in 1..BLOCK_SIZE |->
            (ByteXor(b[i], lo[i]) + hi[BLOCK_SIZE + 1 - i] + i) % ByteMod]))

BlockDecrypt(key, c) ==
    LET r == RotR(c)
        lo == KeyLo(key)
        hi == KeyHi(key)
    IN  AsSeq([i \in 1..BLOCK_SIZE |->
            ByteXor((r[i] + (2 * ByteMod) - hi[BLOCK_SIZE + 1 - i] - i) % ByteMod, lo[i])])

\* Padding up to the next block boundary only: nothing is appended to whole
\* blocks.
Pkcs7Pad_to_boundary(data) ==
    LET n == (BLOCK_SIZE - (Len(data) % BLOCK_SIZE)) % BLOCK_SIZE
    IN  data \o AsSeq([i \in 1..n |-> n])

\* PKCS#7: n = 16 - (len mod 16) bytes of value n are appended, so 1..16 bytes.
Pkcs7Pad(data) ==
    LET n == BLOCK_SIZE - (Len(data) % BLOCK_SIZE)
    IN  data \o AsSeq([i \in 1..n |-> n])

\* The padding check of EVP_DecryptFinal: the last byte n is 1..16 and the last
\* n bytes all equal n.
Pkcs7Valid(data) ==
    /\ Len(data) >= BLOCK_SIZE
    /\ LET n == data[Len(data)]
       IN  /\ n >= 1
           /\ n <= BLOCK_SIZE
           /\ \A i \in (Len(data) - n + 1)..Len(data) : data[i] = n

Pkcs7Unpad(data) == Take(data, Len(data) - data[Len(data)])

\* CBC: c_0 = iv, c_i = E_k(p_i xor c_{i-1}).
RECURSIVE CbcEncrypt(_, _, _)
CbcEncrypt(key, prev, data) ==
    IF data = <<>> THEN <<>>
    ELSE LET c == BlockEncrypt(key, XorBlock(Take(data, BLOCK_SIZE), prev))
         IN  c \o CbcEncrypt(key, c, Drop(data, BLOCK_SIZE))

\* CBC: p_i = D_k(c_i) xor c_{i-1}.
RECURSIVE CbcDecrypt(_, _, _)
CbcDecrypt(key, prev, data) ==
    IF data = <<>> THEN <<>>
    ELSE LET c == Take(data, BLOCK_SIZE)
         IN  XorBlock(BlockDecrypt(key, c), prev) \o CbcDecrypt(key, c, Drop(data, BLOCK_SIZE))

\* Crypter::new(cipher, mode, key, Some(iv)) for an IV whose length is not the
\* cipher's: the crate asks the library to set the IV length.  A library
\* that refuses for a CBC cipher makes it an ErrorStack; with a library that
\* ignores the request (e = "iv_length_unchecked") the crate asserts that the
\* IV is no shorter than the cipher's and panics if it is, and the library
\* reads the first 16 bytes of a longer one.
CrypterInit(e, iv) ==
    IF e = "cipher_error" THEN "error"
    ELSE IF Len(iv) = IV_LEN THEN "ok"
    ELSE IF e # "iv_length_unchecked" THEN "error"
    ELSE IF Len(iv) < IV_LEN THEN "panic"
    ELSE "ok"

\* openssl::symm::encrypt(cipher, key, Some(iv), data): padding is on.  An
\* ErrorStack when the library cannot set the cipher up.
encrypt(e, cipher, key, iv, data) ==
    LET init == CrypterInit(e, iv)
    IN  IF init # "ok" THEN [ok |-> FALSE, panic |-> init = "panic", val |-> <<>>]
        ELSE [ok |-> TRUE, panic |-> FALSE,
              val |-> CbcEncrypt(key, Take(iv, IV_LEN), Pkcs7Pad(data))]

\* openssl::symm::decrypt(cipher, key, Some(iv), data): an ErrorStack when the
\* cipher cannot be set up, when the input is not whole blocks ("wrong final
\* block length") and when the padding check fails ("bad decrypt").
decrypt(e, cipher, key, iv, data) ==
    LET init == CrypterInit(e, iv)
    IN  IF init # "ok" THEN [ok |-> FALSE, panic |-> init = "panic", val |-> <<>>]
        ELSE IF (Len(data) % BLOCK_SIZE) # 0 THEN [ok |-> FALSE, panic |-> FALSE, val |-> <<>>]
        ELSE LET padded == CbcDecrypt(key, Take(iv, IV_LEN), data)
             IN  IF Pkcs7Valid(padded) THEN [ok |-> TRUE, panic |-> FALSE, val |-> Pkcs7Unpad(padded)]
                 ELSE [ok |-> FALSE, panic |-> FALSE, val |-> <<>>]

(***************************************************************************)
(* encrypt_util.rs: validate_salt, AESResult, aes_encrypt, aes_decrypt     *)
(***************************************************************************)
\* A Result: kind is "Ok" or the error's type, value is Some(v) exactly for Ok.
\* calls lists the primitive calls the function made, in order.
\* msg is the error's message; the crate's Korean messages are written as
\* ASCII glosses.
Ok(v, calls) == [kind |-> "Ok", msg |-> "", value |-> Some(v), calls |-> calls]

Err(kind, msg, calls) == [kind |-> kind, msg |-> msg, value |-> None, calls |-> calls]

\* A panic leaving the function: the caller gets no Result.
Panicked(calls) == [kind |-> "panic", msg |-> "", value |-> None, calls |-> calls]

MSG_SALT == "Salt length is invalid(must 8 bytes)"

MSG_ENC_EMPTY == "encryption target is an empty string"

MSG_ENC_KEY == "error while processing AES encryption"

MSG_ENC_CIPHER == "encryption error"

MSG_DEC_MISSING == "decryption target is not given"

MSG_DEC_EMPTY == "decryption target has length 0"

MSG_DEC_KEY == "error while processing AES decryption"

MSG_DEC_CIPHER == "decryption error"

Call(prim, count, key, iv) == [prim |-> prim, count |-> count, key |-> key, iv |-> iv]

\* validate_salt checking only that the salt is not longer than 8 bytes.
validate_salt_at_most(salt) ==
    IF ~is_some(salt) THEN TRUE
    ELSE IF Len(unwrap(salt)) > PKCS5_SALT_LEN THEN FALSE
    ELSE TRUE

\* validate_salt refusing an absent salt.
validate_salt_required(salt) ==
    IF ~is_some(salt) THEN FALSE
    ELSE IF Len(unwrap(salt)) # PKCS5_SALT_LEN THEN FALSE
    ELSE TRUE

\* Ok(()) is TRUE, Err(InvalidArgumentError::from(MSG_SALT)) is FALSE.
validate_salt(salt) ==
    IF ~is_some(salt) THEN TRUE
    ELSE IF Len(unwrap(salt)) # PKCS5_SALT_LEN THEN FALSE
    ELSE TRUE

\* AESResult::new dropping the salt.
AESResult_new_no_salt(salt, result, iv) == [salt |-> None, result |-> result, iv |-> iv]

AESResult_new(salt, result, iv) == [salt |-> salt, result |-> result, iv |-> iv]

\* aes_encrypt validating the salt before the target.
aes_encrypt_salt_first(e, enc_type, target, secret, salt, repeat_count) ==
    IF ~validate_salt(salt) THEN Err("InvalidArgumentError", MSG_SALT, <<>>)
    ELSE IF target = <<>> THEN Err("InvalidArgumentError", MSG_ENC_EMPTY, <<>>)
    ELSE LET cipher == IF enc_type = "AES_128" THEN "AES_128" ELSE "AES_256"
             count == as_i32(repeat_count)
             key_spec == bytes_to_key(e, cipher, secret, salt, count)
             c1 == <<Call("bytes_to_key", count, <<>>, <<>>)>>
         IN  IF ~key_spec.ok THEN Err("CryptoError", MSG_ENC_KEY, c1)
             ELSE LET key == key_spec.key
                      iv == key_spec.iv
                      result == encrypt(e, cipher, key, iv, target)
                      c2 == c1 \o <<Call("encrypt", 0, key, iv)>>
                  IN  IF result.panic THEN Panicked(c2)
                      ELSE IF result.ok THEN Ok(AESResult_new(salt, result.val, iv), c2)
                      ELSE Err("InvalidArgumentError", MSG_ENC_CIPHER, c2)

\* aes_encrypt with the IV filled from a generator whose state the calls
\* before left behind (the rand::thread_rng().fill_bytes(&mut iv) of lines
\* 435-437) instead of the derived one.
aes_encrypt_random_iv(e, enc_type, target, secret, salt, repeat_count) ==
    IF target = <<>> THEN Err("InvalidArgumentError", MSG_ENC_EMPTY, <<>>)
    ELSE IF ~validate_salt(salt) THEN Err("InvalidArgumentError", MSG_SALT, <<>>)
    ELSE LET cipher == IF enc_type = "AES_128" THEN "AES_128" ELSE "AES_256"
             count == as_i32(repeat_count)
             key_spec == bytes_to_key(e, cipher, secret, salt, count)
             c1 == <<Call("bytes_to_key", count, <<>>, <<>>)>>
         IN  IF ~key_spec.ok THEN Err("CryptoError", MSG_ENC_KEY, c1)
             ELSE LET key == key_spec.key
                      iv == Md5(last.secret \o last.iv \o <<Len(last.out.calls)>>)
                      result == encrypt(e, cipher, key, iv, target)
                      c2 == c1 \o <<Call("encrypt", 0, key, iv)>>
                  IN  IF result.panic THEN Panicked(c2)
                      ELSE IF result.ok THEN Ok(AESResult_new(salt, result.val, iv), c2)
                      ELSE Err("InvalidArgumentError", MSG_ENC_CIPHER, c2)

\* aes_encrypt handing a fixed count of 1 to bytes_to_key.
aes_encrypt_fixed_count(e, enc_type, target, secret, salt, repeat_count) ==
    IF target = <<>> THEN Err("InvalidArgumentError", MSG_ENC_EMPTY, <<>>)
    ELSE IF ~validate_salt(salt) THEN Err("InvalidArgumentError", MSG_SALT, <<>>)
    ELSE LET cipher == IF enc_type = "AES_128" THEN "AES_128" ELSE "AES_256"
             count == 1
             key_spec == bytes_to_key(e, cipher, secret, salt, count)
             c1 == <<Call("bytes_to_key", count, <<>>, <<>>)>>
         IN  IF ~key_spec.ok THEN Err("CryptoError", MSG_ENC_KEY, c1)
             ELSE LET key == key_spec.key
                      iv == key_spec.iv
                      result == encrypt(e, cipher, key, iv, target)
                      c2 == c1 \o <<Call("encrypt", 0, key, iv)>>
                  IN  IF result.panic THEN Panicked(c2)
                      ELSE IF result.ok THEN Ok(AESResult_new(salt, result.val, iv), c2)
                      ELSE Err("InvalidArgumentError", MSG_ENC_CIPHER, c2)

aes_encrypt(e, enc_type, target, secret, salt, repeat_count) ==
    IF target = <<>> THEN Err("InvalidArgumentError", MSG_ENC_EMPTY, <<>>)
    ELSE IF ~validate_salt(salt) THEN Err("InvalidArgumentError", MSG_SALT, <<>>)
    ELSE LET cipher == IF enc_type = "AES_128" THEN "AES_128" ELSE "AES_256"
             count == as_i32(repeat_count)
             key_spec == bytes_to_key(e, cipher, secret, salt, count)
             c1 == <<Call("bytes_to_key", count, <<>>, <<>>)>>
         IN  IF ~key_spec.ok THEN Err("CryptoError", MSG_ENC_KEY, c1)
             ELSE LET key == key_spec.key
                      iv == key_spec.iv
                      result == encrypt(e, cipher, key, iv, target)
                      c2 == c1 \o <<Call("encrypt", 0, key, iv)>>
                  IN  IF result.panic THEN Panicked(c2)
                      ELSE IF result.ok THEN Ok(AESResult_new(salt, result.val, iv), c2)
                      ELSE Err("InvalidArgumentError", MSG_ENC_CIPHER, c2)

\* aes_decrypt deriving the key without the salt.
aes_decrypt_no_salt(e, enc_type, target, secret, iv, salt, repeat_count) ==
    IF ~is_some(target) THEN Err("MissingArgumentError", MSG_DEC_MISSING, <<>>)
    ELSE LET v == unwrap(target)
         IN  IF Len(v) = 0 THEN Err("InvalidArgumentError", MSG_DEC_EMPTY, <<>>)
             ELSE IF ~validate_salt(salt) THEN Err("InvalidArgumentError", MSG_SALT, <<>>)
             ELSE LET cipher == IF enc_type = "AES_128" THEN "AES_128" ELSE "AES_256"
                      count == as_i32(repeat_count)
                      key_spec == bytes_to_key(e, cipher, secret, None, count)
                      c1 == <<Call("bytes_to_key", count, <<>>, <<>>)>>
                  IN  IF ~key_spec.ok THEN Err("CryptoError", MSG_DEC_KEY, c1)
                      ELSE LET key == key_spec.key
                               result == decrypt(e, cipher, key, iv, v)
                               c2 == c1 \o <<Call("decrypt", 0, key, iv)>>
                           IN  IF result.panic THEN Panicked(c2)
                               ELSE IF result.ok THEN Ok(result.val, c2)
                               ELSE Err("InvalidArgumentError", MSG_DEC_CIPHER, c2)

\* aes_decrypt validating the salt before the target.
aes_decrypt_salt_first(e, enc_type, target, secret, iv, salt, repeat_count) ==
    IF ~validate_salt(salt) THEN Err("InvalidArgumentError", MSG_SALT, <<>>)
    ELSE IF ~is_some(target) THEN Err("MissingArgumentError", MSG_DEC_MISSING, <<>>)
    ELSE LET v == unwrap(target)
         IN  IF Len(v) = 0 THEN Err("InvalidArgumentError", MSG_DEC_EMPTY, <<>>)
             ELSE LET cipher == IF enc_type = "AES_128" THEN "AES_128" ELSE "AES_256"
                      count == as_i32(repeat_count)
                      key_spec == bytes_to_key(e, cipher, secret, salt, count)
                      c1 == <<Call("bytes_to_key", count, <<>>, <<>>)>>
                  IN  IF ~key_spec.ok THEN Err("CryptoError", MSG_DEC_KEY, c1)
                      ELSE LET key == key_spec.key
                               result == decrypt(e, cipher, key, iv, v)
                               c2 == c1 \o <<Call("decrypt", 0, key, iv)>>
                           IN  IF result.panic THEN Panicked(c2)
                               ELSE IF result.ok THEN Ok(result.val, c2)
                               ELSE Err("InvalidArgumentError", MSG_DEC_CIPHER, c2)

\* aes_decrypt reporting a rejected ciphertext as CryptoError.
aes_decrypt_crypto_error(e, enc_type, target, secret, iv, salt, repeat_count) ==
    IF ~is_some(target) THEN Err("MissingArgumentError", MSG_DEC_MISSING, <<>>)
    ELSE LET v == unwrap(target)
         IN  IF Len(v) = 0 THEN Err("InvalidArgumentError", MSG_DEC_EMPTY, <<>>)
             ELSE IF ~validate_salt(salt) THEN Err("InvalidArgumentError", MSG_SALT, <<>>)
             ELSE LET cipher == IF enc_type = "AES_128" THEN "AES_128" ELSE "AES_256"
                      count == as_i32(repeat_count)
                      key_spec == bytes_to_key(e, cipher, secret, salt, count)
                      c1 == <<Call("bytes_to_key", count, <<>>, <<>>)>>
                  IN  IF ~key_spec.ok THEN Err("CryptoError", MSG_DEC_KEY, c1)
                      ELSE LET key == key_spec.key
                               result == decrypt(e, cipher, key, iv, v)
                               c2 == c1 \o <<Call("decrypt", 0, key, iv)>>
                           IN  IF result.panic THEN Panicked(c2)
                               ELSE IF result.ok THEN Ok(result.val, c2)
                               ELSE Err("CryptoError", MSG_DEC_CIPHER, c2)

\* aes_decrypt deciphering under the IV of the derivation.
aes_decrypt_derived_iv(e, enc_type, target, secret, iv, salt, repeat_count) ==
    IF ~is_some(target) THEN Err("MissingArgumentError", MSG_DEC_MISSING, <<>>)
    ELSE LET v == unwrap(target)
         IN  IF Len(v) = 0 THEN Err("InvalidArgumentError", MSG_DEC_EMPTY, <<>>)
             ELSE IF ~validate_salt(salt) THEN Err("InvalidArgumentError", MSG_SALT, <<>>)
             ELSE LET cipher == IF enc_type = "AES_128" THEN "AES_128" ELSE "AES_256"
                      count == as_i32(repeat_count)
                      key_spec == bytes_to_key(e, cipher, secret, salt, count)
                      c1 == <<Call("bytes_to_key", count, <<>>, <<>>)>>
                  IN  IF ~key_spec.ok THEN Err("CryptoError", MSG_DEC_KEY, c1)
                      ELSE LET key == key_spec.key
                               result == decrypt(e, cipher, key, key_spec.iv, v)
                               c2 == c1 \o <<Call("decrypt", 0, key, key_spec.iv)>>
                           IN  IF result.panic THEN Panicked(c2)
                               ELSE IF result.ok THEN Ok(result.val, c2)
                               ELSE Err("InvalidArgumentError", MSG_DEC_CIPHER, c2)

aes_decrypt(e, enc_type, target, secret, iv, salt, repeat_count) ==
    IF ~is_some(target) THEN Err("MissingArgumentError", MSG_DEC_MISSING, <<>>)
    ELSE LET v == unwrap(target)
         IN  IF Len(v) = 0 THEN Err("InvalidArgumentError", MSG_DEC_EMPTY, <<>>)
             ELSE IF ~validate_salt(salt) THEN Err("InvalidArgumentError", MSG_SALT, <<>>)
             ELSE LET cipher == IF enc_type = "AES_128" THEN "AES_128" ELSE "AES_256"
                      count == as_i32(repeat_count)
                      key_spec == bytes_to_key(e, cipher, secret, salt, count)
                      c1 == <<Call("bytes_to_key", count, <<>>, <<>>)>>
                  IN  IF ~key_spec.ok THEN Err("CryptoError", MSG_DEC_KEY, c1)
                      ELSE LET key == key_spec.key
                               result == decrypt(e, cipher, key, iv, v)
                               c2 == c1 \o <<Call("decrypt", 0, key, iv)>>
                           IN  IF result.panic THEN Panicked(c2)
                               ELSE IF result.ok THEN Ok(result.val, c2)
                               ELSE Err("InvalidArgumentError", MSG_DEC_CIPHER, c2)

(***************************************************************************)
(* The callers' inputs                                                     *)
(***************************************************************************)
MaxTargetLen == 17

MaxSecretLen == 8

MaxRepeat == 2

\* The bytes first, first+1, ... (n of them): "abc" is Str(97, 3).
Str(first, n) == AsSeq([i \in 1..n |-> (first + i - 1) % ByteMod])

\* The empty plaintext, one byte, and the lengths around a block boundary.
TargetLens == {n \in 0..MaxTargetLen : n <= 1 \/ (n % BLOCK_SIZE) <= 1}

Targets == {Str(84, n) : n \in TargetLens}

Secrets == {Str(97, n) : n \in {0, MaxSecretLen}}

\* No salt, and salts of 7, 8 and 9 bytes.
Salts == {None} \cup {Some(Str(115, n)) : n \in (PKCS5_SALT_LEN - 1)..(PKCS5_SALT_LEN + 1)}

RepeatCounts == {usize(n) : n \in 0..MaxRepeat}

\* Counts of 2^31 and of 2^32 + 2 iterations.
WrappingCounts == {<<0, HalfLimb, 0, 0>>, <<2, 0, 1, 0>>}

\* The library configurations the process can run under: everything
\* available (an IV length other than the cipher's is refused), the digest of
\* the key derivation unavailable, the cipher unavailable, and everything
\* available in a build whose library does not refuse another IV length.
Envs == {"ok", "kdf_error", "cipher_error", "iv_length_unchecked"}

NoCall ==
    [op |-> "none", enc_type |-> "AES_128", target |-> None, secret |-> <<>>, iv |-> <<>>,
     salt |-> None, repeat_count |-> usize(0), out |-> Err("none", "", <<>>)]

\* What the caller decrypts: the AESResult it kept with the arguments that
\* made it, or (nothing kept) one block of bytes under an all-zero IV.
Base ==
    IF is_some(kept)
    THEN LET k == unwrap(kept)
         IN  [enc_type |-> k.enc_type, target |-> Some(k.res.result), secret |-> k.secret,
              iv |-> k.res.iv, salt |-> k.salt, repeat_count |-> k.repeat_count]
    ELSE [enc_type |-> cfg.enc_type, target |-> Some(Str(1, BLOCK_SIZE)), secret |-> cfg.secret,
          iv |-> Str(0, IV_LEN), salt |-> Some(Str(115, PKCS5_SALT_LEN)),
          repeat_count |-> cfg.repeat_count]

\* The ciphertext as kept, cut short by one byte, with its last byte changed;
\* an empty one and none at all.
DecTargets(t) ==
    LET ct == unwrap(t)
    IN  {None, Some(<<>>), t, Some(Take(ct, Len(ct) - 1)),
         Some(AsSeq([ct EXCEPT ![Len(ct)] = (ct[Len(ct)] + 1) % ByteMod]))}

\* The matching arguments with the target and the salt replaced, or with one
\* of the other arguments replaced; the IV by 16 other bytes, by its first 15
\* bytes and by 17 bytes.
DecryptArgs ==
    LET b == Base
    IN  {[b EXCEPT !.target = t, !.salt = s] : t \in DecTargets(b.target), s \in Salts}
        \cup {[b EXCEPT !.secret = x] : x \in Secrets}
        \cup {[b EXCEPT !.repeat_count = n] : n \in RepeatCounts \cup WrappingCounts}
        \cup {[b EXCEPT !.enc_type = t] : t \in AES_TYPES}
        \cup {[b EXCEPT !.iv = v] :
                v \in {Str(0, IV_LEN), Take(b.iv, IV_LEN - 1), b.iv \o <<0>>}}

(***************************************************************************)
(* The state machine                                                       *)
(***************************************************************************)
Init ==
    /\ env \in Envs
    /\ cfg \in [enc_type : AES_TYPES, secret : Secrets, repeat_count : RepeatCounts]
    /\ kept = None
    /\ last = NoCall

\* A call of aes_encrypt with the application's strength, secret and repeat
\* count, or (for one byte of plaintext under a salt of 8 bytes) with a
\* count past the range of i32; the caller may keep the AESResult of the
\* former.
AesEncrypt ==
    \E target \in Targets, salt \in Salts, keep \in BOOLEAN,
       repeat_count \in {cfg.repeat_count} \cup WrappingCounts :
        LET enc_type == cfg.enc_type
            secret == cfg.secret
            r == aes_encrypt(env, enc_type, target, secret, salt, repeat_count)
        IN  /\ repeat_count \in WrappingCounts
                  => (Len(target) = 1 /\ salt = Some(Str(115, PKCS5_SALT_LEN)) /\ ~keep)
            /\ keep => r.kind = "Ok"
            /\ last' = [op |-> "aes_encrypt", enc_type |-> enc_type, target |-> Some(target),
                        secret |-> secret, iv |-> <<>>, salt |-> salt,
                        repeat_count |-> repeat_count, out |-> r]
            /\ kept' = IF keep
                       THEN Some([enc_type |-> enc_type, target |-> target, secret |-> secret,
                                  salt |-> salt, repeat_count |-> repeat_count,
                                  res |-> unwrap(r.value)])
                       ELSE kept
            /\ UNCHANGED <<env, cfg>>

\* A call of aes_decrypt.
AesDecrypt ==
    \E a \in DecryptArgs :
        /\ last' = [op |-> "aes_decrypt", enc_type |-> a.enc_type, target |-> a.target,
                    secret |-> a.secret, iv |-> a.iv, salt |-> a.salt,
                    repeat_count |-> a.repeat_count,
                    out |-> aes_decrypt(env, a.enc_type, a.target, a.secret, a.iv, a.salt,
                                        a.repeat_count)]
        /\ UNCHANGED <<env, cfg, kept>>

Next == AesEncrypt \/ AesDecrypt

Spec == Init /\ [][Next]_vars

(***************************************************************************)
(* Properties                                                              *)
(***************************************************************************)
IsEncrypt == last.op = "aes_encrypt"

IsDecrypt == last.op = "aes_decrypt"

\* The last call passed a target that is present and not empty.
TargetGiven == is_some(last.target) /\ unwrap(last.target) # <<>>

\* The last call was aes_decrypt of the kept AESResult with the arguments
\* that made it.
DecryptsKept ==
    /\ IsDecrypt
    /\ is_some(kept)
    /\ last.enc_type = unwrap(kept).enc_type
    /\ last.target = Some(unwrap(kept).res.result)
    /\ last.secret = unwrap(kept).secret
    /\ last.iv = unwrap(kept).res.iv
    /\ last.salt = unwrap(kept).salt
    /\ last.repeat_count = unwrap(kept).repeat_count

\* C1: AES round trip.  Decrypting the result of a successful
\* aes_encrypt(type, plaintext, secret, Some(salt), n) with the same type,
\* secret, salt and n and the IV of the result succeeds and returns exactly
\* the plaintext bytes.
AesRoundTrip ==
    (DecryptsKept /\ is_some(last.salt)) =>
        /\ last.out.kind = "Ok"
        /\ last.out.value = Some(unwrap(kept).target)

\* A two-block plaintext encrypted with a salt under AES_256 came back.
AesRoundTripWitness ==
    /\ DecryptsKept
    /\ is_some(last.salt)
    /\ last.enc_type = "AES_256"
    /\ Len(unwrap(kept).target) > BLOCK_SIZE
    /\ last.out.value = Some(unwrap(kept).target)

\* C2: a supplied salt whose length is not 8 bytes makes aes_encrypt (target
\* not empty) and aes_decrypt (target present and not empty) fail with
\* InvalidArgumentError before any key derivation or cipher call.
SaltLengthRejected ==
    ((IsEncrypt \/ IsDecrypt) /\ TargetGiven /\ is_some(last.salt)
        /\ Len(unwrap(last.salt)) # PKCS5_SALT_LEN) =>
        /\ last.out.kind = "InvalidArgumentError"
        /\ last.out.value = None
        /\ last.out.calls = <<>>

\* aes_decrypt of the kept ciphertext refused a salt of 9 bytes.
SaltLengthRejectedWitness ==
    /\ IsDecrypt
    /\ is_some(kept)
    /\ last.target = Some(unwrap(kept).res.result)
    /\ is_some(last.salt)
    /\ Len(unwrap(last.salt)) = PKCS5_SALT_LEN + 1
    /\ last.out.kind = "InvalidArgumentError"

\* C3 as claimed: aes_encrypt and aes_decrypt called with an absent salt
\* (None) never succeed.
AbsentSaltNeverSucceeds ==
    ((IsEncrypt \/ IsDecrypt) /\ last.salt = None) => last.out.kind # "Ok"

\* C3 as amended: an absent salt passes validation.  With a target given the
\* call goes on to derive the key without salt; aes_encrypt then returns an
\* AESResult whose salt is None unless a primitive fails, and aes_decrypt of
\* that result with salt None returns the plaintext.
AbsentSaltAccepted ==
    ((IsEncrypt \/ IsDecrypt) /\ last.salt = None /\ TargetGiven) =>
        /\ last.out.calls # <<>>
        /\ last.out.msg # MSG_SALT
        /\ (IsEncrypt /\ env = "ok") =>
              (last.out.kind = "Ok" /\ unwrap(last.out.value).salt = None)
        /\ DecryptsKept => last.out.value = Some(unwrap(kept).target)

\* An AESResult made without salt was decrypted without salt.
AbsentSaltAcceptedWitness ==
    /\ DecryptsKept
    /\ last.salt = None
    /\ unwrap(kept).res.salt = None
    /\ last.out.kind = "Ok"

\* C4: aes_encrypt returns InvalidArgumentError whenever target is empty,
\* whatever the other arguments are; the emptiness check comes first (its
\* message is returned also when the salt is invalid) and no derivation or
\* cipher call is made.
EmptyTargetRejected ==
    (IsEncrypt /\ last.target = Some(<<>>)) =>
        /\ last.out.kind = "InvalidArgumentError"
        /\ last.out.msg = MSG_ENC_EMPTY
        /\ last.out.value = None
        /\ last.out.calls = <<>>

\* An empty target was passed together with a salt of the wrong length.
EmptyTargetRejectedWitness ==
    /\ IsEncrypt
    /\ last.target = Some(<<>>)
    /\ is_some(last.salt)
    /\ Len(unwrap(last.salt)) # PKCS5_SALT_LEN
    /\ last.out.msg = MSG_ENC_EMPTY

\* C5: aes_decrypt validates in this order: a target of None gives
\* MissingArgumentError before anything else (also with a salt of the wrong
\* length); a target of Some(empty) gives InvalidArgumentError (also with a
\* valid salt); only then the salt length is checked.
DecryptValidationOrder ==
    IsDecrypt =>
        /\ last.target = None =>
              (last.out.kind = "MissingArgumentError" /\ last.out.calls = <<>>)
        /\ last.target = Some(<<>>) =>
              /\ last.out.kind = "InvalidArgumentError"
              /\ last.out.msg = MSG_DEC_EMPTY
              /\ last.out.calls = <<>>
        /\ (TargetGiven /\ ~validate_salt(last.salt)) =>
              /\ last.out.kind = "InvalidArgumentError"
              /\ last.out.msg = MSG_SALT
              /\ last.out.calls = <<>>

\* No target at all was passed together with a salt of the wrong length.
DecryptValidationOrderWitness ==
    /\ IsDecrypt
    /\ last.target = None
    /\ is_some(last.salt)
    /\ Len(unwrap(last.salt)) # PKCS5_SALT_LEN
    /\ last.out.kind = "MissingArgumentError"

\* C6: every successful aes_encrypt returns an AESResult whose salt is the
\* salt argument, whose iv has 16 bytes for AES_128 and AES_256 alike and
\* whose result is not empty; a failing call returns no AESResult.
AesResultShape ==
    IsEncrypt =>
        IF last.out.kind = "Ok"
        THEN /\ is_some(last.out.value)
             /\ unwrap(last.out.value).salt = last.salt
             /\ Len(unwrap(last.out.value).iv) = IV_LEN
             /\ unwrap(last.out.value).result # <<>>
        ELSE last.out.value = None

\* An AES_256 encryption with a salt succeeded.
AesResultShapeWitness ==
    /\ IsEncrypt
    /\ last.enc_type = "AES_256"
    /\ is_some(last.salt)
    /\ last.out.kind = "Ok"
    /\ Len(unwrap(last.out.value).result) > BLOCK_SIZE

\* The last call was aes_encrypt with the arguments that made the kept
\* AESResult.
EncryptsAsKept ==
    /\ IsEncrypt
    /\ is_some(kept)
    /\ last.enc_type = unwrap(kept).enc_type
    /\ last.target = Some(unwrap(kept).target)
    /\ last.secret = unwrap(kept).secret
    /\ last.salt = unwrap(kept).salt
    /\ last.repeat_count = unwrap(kept).repeat_count

Derived == (IsEncrypt \/ IsDecrypt) /\ Len(last.out.calls) = 2

SaltBytes == IF is_some(last.salt) THEN unwrap(last.salt) ELSE <<>>

Min(a, b) == IF a < b THEN a ELSE b

\* The value of a usize below 2^31.
usize_value(u) == (u[2] * Limb) + u[1]

\* n digest rounds in total: round 1 over secret || salt, round i over the
\* digest of round i-1 || secret || salt, the outputs concatenated.
RECURSIVE TotalRounds(_, _, _, _, _)
TotalRounds(prev, data, salt, i, n) ==
    IF i > n THEN <<>>
    ELSE LET d == Md5(prev \o data \o salt)
         IN  d \o TotalRounds(d, data, salt, i + 1, n)

ClaimedMaterial == TotalRounds(<<>>, last.secret, SaltBytes, 1, usize_value(last.repeat_count))

ClaimedKey == Take(ClaimedMaterial, Min(key_len(last.enc_type), Len(ClaimedMaterial)))

ClaimedIv ==
    Take(Drop(ClaimedMaterial, Len(ClaimedKey)), Min(IV_LEN, Len(ClaimedMaterial) - Len(ClaimedKey)))

RECURSIVE Iterate(_, _)
Iterate(x, k) == IF k = 0 THEN x ELSE Iterate(Md5(x), k - 1)

\* The rounds each block gets: the count handed over, at least one.
RoundsPerBlock == IF as_i32(last.repeat_count) < 1 THEN 1 ELSE as_i32(last.repeat_count)

Block1 == Iterate(last.secret \o SaltBytes, RoundsPerBlock)

Block2 == Iterate(Block1 \o last.secret \o SaltBytes, RoundsPerBlock)

Block3 == Iterate(Block2 \o last.secret \o SaltBytes, RoundsPerBlock)

DecryptRejectionIsInvalidArgument ==
    (Derived /\ IsDecrypt /\ Len(last.iv) = IV_LEN /\
        (IF (Len(unwrap(last.target)) % BLOCK_SIZE) # 0 THEN TRUE
         ELSE ~Pkcs7Valid(CbcDecrypt(last.out.calls[2].key, last.iv, unwrap(last.target))))) =>
        /\ last.out.kind = "InvalidArgumentError"
        /\ last.out.msg = MSG_DEC_CIPHER
        /\ last.out.value = None

\* The kept ciphertext was decrypted with another secret and the padding
\* check failed.
DecryptRejectionWitness ==
    /\ IsDecrypt
    /\ Derived
    /\ is_some(kept)
    /\ last.target = Some(unwrap(kept).res.result)
    /\ last.secret # unwrap(kept).secret
    /\ last.out.kind = "InvalidArgumentError"

\* C10: in aes_encrypt, once argument validation has passed, every failure
\* reported by an underlying primitive (key derivation or the cipher encrypt
\* operation) is returned to the caller as CryptoError.
EncryptFailureIsCryptoError ==
    (IsEncrypt /\ last.out.calls # <<>> /\ last.out.kind # "Ok") =>
        last.out.kind = "CryptoError"

(***************************************************************************)
(* encrypt_util.rs: make_sha_hash, make_sha_hash_string                    *)
(***************************************************************************)
SHA_TYPES == {"SHA_256", "SHA_512"}

SHA256_LEN == 32

SHA512_LEN == 64

\* <D as Digest>::output_size()
output_size(D) == IF D = "SHA_256" THEN SHA256_LEN ELSE SHA512_LEN

\* The sha2 hashers as streaming digests.  D::new() has absorbed nothing,
\* update absorbs the bytes after those absorbed before, finalize digests what
\* was absorbed.  The compression function is replaced by a mixing function
\* with the real output width that is free of collisions on messages shorter
\* than the digest.
Digest_new == <<>>

Digest_update(hasher, data) == hasher \o data

Digest_finalize(D, hasher) ==
    LET n == Len(hasher)
        w == output_size(D)
    IN  AsSeq([i \in 1..w |->
            IF i = 1 THEN ((n * 7) + w) % ByteMod
            ELSE IF i - 1 <= n THEN (hasher[i - 1] + (i * 13) + n + w) % ByteMod
            ELSE ((i * 29) + (n * 3) + w) % ByteMod])

MSG_HASH_EMPTY == "hash target is an empty string"

\* _hash_ absorbing the salt before the target.
_hash_salt_first(D, target, salt) ==
    LET h0 == Digest_new
        h1 == IF is_some(salt) /\ unwrap(salt) # <<>>
              THEN Digest_update(h0, unwrap(salt))
              ELSE h0
        h2 == Digest_update(h1, target)
    IN  Ok(Digest_finalize(D, h2), <<>>)

\* _hash_ leaving the salt out.
_hash_salt_ignored(D, target, salt) ==
    LET h0 == Digest_new
        h1 == Digest_update(h0, target)
    IN  Ok(Digest_finalize(D, h1), <<>>)

\* fn _hash_<D: Digest>(target, salt), lines 164-179.
_hash_(D, target, salt) ==
    LET h0 == Digest_new
        h1 == Digest_update(h0, target)
        h2 == IF is_some(salt) /\ unwrap(salt) # <<>>
              THEN Digest_update(h1, unwrap(salt))
              ELSE h1
    IN  Ok(Digest_finalize(D, h2), <<>>)

\* make_sha_hash without the check of the target.
make_sha_hash_unchecked(hash_type, target, salt) ==
    IF hash_type = "SHA_256" THEN _hash_("SHA_256", target, salt)
    ELSE _hash_("SHA_512", target, salt)

make_sha_hash(hash_type, target, salt) ==
    IF target = <<>> THEN Err("MissingArgumentError", MSG_HASH_EMPTY, <<>>)
    ELSE IF hash_type = "SHA_256" THEN _hash_("SHA_256", target, salt)
    ELSE _hash_("SHA_512", target, salt)

\* A String is the sequence of its characters.
HexChars == <<"0", "1", "2", "3", "4", "5", "6", "7", "8", "9", "a", "b", "c", "d", "e", "f">>

\* format!("{:x}", b): no leading zero.
format_x(b) ==
    IF b < 16 THEN <<HexChars[b + 1]>>
    ELSE <<HexChars[(b \div 16) + 1], HexChars[(b % 16) + 1]>>

\* format!("{:02x}", b): width 2, filled with zeros.
format_02x(b) ==
    LET digits == format_x(b)
    IN  IF Len(digits) < 2 THEN <<"0">> \o digits ELSE digits

\* v.join(""): the strings one after the other.
RECURSIVE join(_)
join(v) == IF v = <<>> THEN <<>> ELSE Head(v) \o join(Tail(v))

\* make_sha_hash_string formatting each byte with {:x}.
make_sha_hash_string_unpadded(hash_type, target, salt) ==
    LET result == make_sha_hash(hash_type, target, salt)
    IN  IF result.kind = "Ok"
        THEN LET r == unwrap(result.value)
                 v == AsSeq([i \in 1..Len(r) |-> format_x(r[i])])
             IN  Ok(join(v), <<>>)
        ELSE result

make_sha_hash_string(hash_type, target, salt) ==
    LET result == make_sha_hash(hash_type, target, salt)
    IN  IF result.kind = "Ok"
        THEN LET r == unwrap(result.value)
                 v == AsSeq([i \in 1..Len(r) |-> format_02x(r[i])])
             IN  Ok(join(v), <<>>)
        ELSE result

(***************************************************************************)
(* Hashing: the callers' inputs and the state machine                      *)
(***************************************************************************)
MaxHashTargetLen == 3

MaxHashSaltLen == 2

\* The empty target, "t", "tuv..." of MaxHashTargetLen bytes, and the bytes
\* 0xff 0x00.
HashTargets == {Str(116, n) : n \in {0, 1, MaxHashTargetLen}} \cup {Str(255, 2)}

\* No salt, the empty string, and strings of "s..." and "t...".
HashSalts ==
    {None} \cup {Some(Str(115, n)) : n \in 0..MaxHashSaltLen}
           \cup {Some(Str(116, n)) : n \in 1..MaxHashSaltLen}

NoHashCall ==
    [op |-> "none", hash_type |-> "SHA_256", target |-> <<>>, salt |-> None,
     out |-> Err("none", "", <<>>)]

InitHash ==
    /\ env = "ok"
    /\ cfg = [enc_type |-> "AES_128", secret |-> <<>>, repeat_count |-> usize(0)]
    /\ kept = None
    /\ last = NoHashCall

\* A call of make_sha_hash; the caller may keep a digest it got.
MakeShaHash ==
    \E hash_type \in SHA_TYPES, target \in HashTargets, salt \in HashSalts, keep \in BOOLEAN :
        LET r == make_sha_hash(hash_type, target, salt)
            call == [op |-> "make_sha_hash", hash_type |-> hash_type, target |-> target,
                     salt |-> salt, out |-> r]
        IN  /\ keep => r.kind = "Ok"
            /\ last' = call
            /\ kept' = IF keep THEN Some(call) ELSE kept
            /\ UNCHANGED <<env, cfg>>

\* A call of make_sha_hash_string.
MakeShaHashString ==
    \E hash_type \in SHA_TYPES, target \in HashTargets, salt \in HashSalts :
        /\ last' = [op |-> "make_sha_hash_string", hash_type |-> hash_type, target |-> target,
                    salt |-> salt, out |-> make_sha_hash_string(hash_type, target, salt)]
        /\ UNCHANGED <<env, cfg, kept>>

NextHash == MakeShaHash \/ MakeShaHashString

SpecHash == InitHash /\ [][NextHash]_vars

(***************************************************************************)
(* Hashing: properties                                                     *)
(***************************************************************************)
IsHash == last.op = "make_sha_hash"

IsHashString == last.op = "make_sha_hash_string"

\* The bytes a salt argument stands for: none for None and for "".
HashSaltBytes(salt) == IF is_some(salt) THEN unwrap(salt) ELSE <<>>

\* The digest of one byte string, absorbed in one piece.
Sha(D, message) == Digest_finalize(D, Digest_update(Digest_new, message))

\* C11: make_sha_hash(type, target, salt) is the digest of the single byte
\* string target || salt (salt after target, one pass) when the salt is
\* present and not empty, and the digest of target alone when the salt is
\* None or the empty string; the digest has 32 bytes for SHA_256 and 64 for
\* SHA_512.
HashOfTargetThenSalt ==
    (IsHash /\ last.out.kind = "Ok") =>
        /\ last.out.value =
              Some(IF is_some(last.salt) /\ unwrap(last.salt) # <<>>
                   THEN Sha(last.hash_type, last.target \o unwrap(last.salt))
                   ELSE Sha(last.hash_type, last.target))
        /\ Len(unwrap(last.out.value)) = (IF last.hash_type = "SHA_256" THEN 32 ELSE 64)

\* A SHA_512 digest of a target with a salt of two bytes was made.
HashOfTargetThenSaltWitness ==
    /\ IsHash
    /\ last.hash_type = "SHA_512"
    /\ Len(last.target) > 1
    /\ is_some(last.salt)
    /\ Len(unwrap(last.salt)) > 1
    /\ last.out.value = Some(Sha("SHA_512", last.target \o unwrap(last.salt)))

\* C12: make_sha_hash and make_sha_hash_string return MissingArgumentError
\* for an empty target, for every hash type and every salt, and succeed for
\* every target that is not empty.
HashEmptyTargetRejected ==
    (IsHash \/ IsHashString) =>
        IF last.target = <<>>
        THEN /\ last.out.kind = "MissingArgumentError"
             /\ last.out.value = None
        ELSE /\ last.out.kind = "Ok"
             /\ is_some(last.out.value)

\* make_sha_hash_string refused an empty target that came with a salt.
HashEmptyTargetRejectedWitness ==
    /\ IsHashString
    /\ last.target = <<>>
    /\ is_some(last.salt)
    /\ unwrap(last.salt) # <<>>
    /\ last.out.kind = "MissingArgumentError"

\* The last call was make_sha_hash with the hash type and the target of the
\* kept digest.
HashesKeptTarget ==
    /\ IsHash
    /\ is_some(kept)
    /\ last.hash_type = unwrap(kept).hash_type
    /\ last.target = unwrap(kept).target
    /\ last.out.kind = "Ok"

\* C13 as claimed: for every hash type and target, make_sha_hash with salt
\* arguments A and B returns different digests whenever A # B, A and B
\* ranging over all salt arguments, absent or present.
SaltArgumentSensitivity ==
    (HashesKeptTarget /\ last.salt # unwrap(kept).salt) =>
        last.out.value # unwrap(kept).out.value

\* C13 as amended: for every hash type and target, make_sha_hash with salts A
\* and B returns different digests whenever the bytes of A and B differ,
\* where an absent salt and the empty string both stand for no bytes; None
\* and Some("") return the same digest.
SaltBytesSensitivity ==
    HashesKeptTarget =>
        (last.out.value = unwrap(kept).out.value
            <=> HashSaltBytes(last.salt) = HashSaltBytes(unwrap(kept).salt))

\* The same target was digested with the salts "s" and "t" and the digests
\* differ.
SaltBytesSensitivityWitness ==
    /\ HashesKeptTarget
    /\ is_some(last.salt)
    /\ is_some(unwrap(kept).salt)
    /\ Len(unwrap(last.salt)) = 1
    /\ Len(unwrap(unwrap(kept).salt)) = 1
    /\ last.salt # unwrap(kept).salt
    /\ last.out.value # unwrap(kept).out.value

\* The value of a hexadecimal digit 0-9 a-f, 16 for any other character.
HexValue(c) ==
    IF \E i \in 1..16 : HexChars[i] = c THEN (CHOOSE i \in 1..16 : HexChars[i] = c) - 1 ELSE 16

\* The bytes a string of hexadecimal digit pairs spells.
HexDecode(s) ==
    AsSeq([i \in 1..(Len(s) \div 2) |-> (16 * HexValue(s[(2 * i) - 1])) + HexValue(s[2 * i])])

\* C14: make_sha_hash_string(type, target, salt) is the lowercase hex
\* encoding of make_sha_hash(type, target, salt): two characters 0-9 a-f per
\* byte in byte order and nothing else (64 characters for SHA_256, 128 for
\* SHA_512); it fails exactly when make_sha_hash fails, with the same error.
HashStringIsLowerHex ==
    IsHashString =>
        LET h == make_sha_hash(last.hash_type, last.target, last.salt)
        IN  IF h.kind = "Ok"
            THEN /\ last.out.kind = "Ok"
                 /\ LET s == unwrap(last.out.value)
                    IN  /\ Len(s) = (IF last.hash_type = "SHA_256" THEN 64 ELSE 128)
                        /\ \A i \in 1..Len(s) : HexValue(s[i]) < 16
                        /\ HexDecode(s) = unwrap(h.value)
            ELSE last.out = h

\* A SHA_256 digest with a byte below 0x10 was written as 64 characters.
HashStringIsLowerHexWitness ==
    /\ IsHashString
    /\ last.hash_type = "SHA_256"
    /\ last.out.kind = "Ok"
    /\ Len(unwrap(last.out.value)) = 64
    /\ \E i \in 1..32 : unwrap(last.out.value)[(2 * i) - 1] = "0"
    /\ \E i \in 1..64 : unwrap(last.out.value)[i] = "f"

(***************************************************************************)
(* RSA primitives of the linked OpenSSL                                    *)
(***************************************************************************)
RSA_BITS == {"B_1024", "B_2048", "B_4096", "B_8192"}

\* RSA_BIT::bit
bit(bit_size) ==
    CASE bit_size = "B_1024" -> 1024
      [] bit_size = "B_2048" -> 2048
      [] bit_size = "B_4096" -> 4096
      [] bit_size = "B_8192" -> 8192

\* RSA_BIT::bytes
bytes(bit_size) ==
    CASE bit_size = "B_1024" -> 128
      [] bit_size = "B_2048" -> 256
      [] bit_size = "B_4096" -> 512
      [] bit_size = "B_8192" -> 1024

\* The bytes of PKCS#1 v1.5 encryption padding besides the message: 00 02,
\* at least 8 bytes of padding string, 00.
RSA_PKCS1_PADDING_SIZE == 11

Zeros(n) == AsSeq([i \in 1..n |-> 0])

\* Rsa::generate(bits): a key pair drawn by the generator from its state rng,
\* or an ErrorStack.  The modulus n has exactly bits bits (its first byte is
\* 0x80 or more), e is 65537.  The arithmetic of RSA is replaced by a keyed
\* byte map; d undoes the map of the n of the same pair and of no other.
Rsa_generate(e, rng, bits) ==
    IF e = "keygen_error" THEN [ok |-> FALSE, key |-> <<>>]
    ELSE LET k == bits \div 8
             n == AsSeq([i \in 1..k |->
                     IF i = 1 THEN 128 + ((rng * 37) % 128)
                     ELSE ((rng * i * 7) + (i * i) + k) % ByteMod])
             d == AsSeq([i \in 1..k |-> (ByteMod - n[i]) % ByteMod])
         IN  [ok |-> TRUE, key |-> [n |-> n, e |-> <<1, 0, 1>>, d |-> d]]

\* Rsa::size(): the size of the modulus in bytes.
Rsa_size(key) == Len(key.n)

PEM_PUBLIC_BEGIN ==
    <<45, 45, 45, 45, 45, 66, 69, 71, 73, 78, 32, 80, 85, 66, 76, 73, 67, 32, 75, 69, 89,
      45, 45, 45, 45, 45, 10>>

PEM_PUBLIC_END ==
    <<45, 45, 45, 45, 45, 69, 78, 68, 32, 80, 85, 66, 76, 73, 67, 32, 75, 69, 89, 45, 45,
      45, 45, 45, 10>>

PEM_PRIVATE_BEGIN ==
    <<45, 45, 45, 45, 45, 66, 69, 71, 73, 78, 32, 82, 83, 65, 32, 80, 82, 73, 86, 65, 84,
      69, 32, 75, 69, 89, 45, 45, 45, 45, 45, 10>>

PEM_PRIVATE_END ==
    <<45, 45, 45, 45, 45, 69, 78, 68, 32, 82, 83, 65, 32, 80, 82, 73, 86, 65, 84, 69, 32,
      75, 69, 89, 45, 45, 45, 45, 45, 10>>

\* The key's fields in sequence, the modulus behind its length: what the PEM
\* body carries (DER in base64 in the library, the plain bytes here).
DerLength(k) == <<k \div ByteMod, k % ByteMod>>

\* Rsa::public_key_to_pem
public_key_to_pem(e, key) ==
    IF e = "pub_pem_error" THEN [ok |-> FALSE, val |-> <<>>]
    ELSE [ok |-> TRUE,
          val |-> PEM_PUBLIC_BEGIN \o DerLength(Len(key.n)) \o key.n \o key.e \o PEM_PUBLIC_END]

\* Rsa::private_key_to_pem
private_key_to_pem(e, key) ==
    IF e = "prv_pem_error" THEN [ok |-> FALSE, val |-> <<>>]
    ELSE [ok |-> TRUE,
          val |-> PEM_PRIVATE_BEGIN \o DerLength(Len(key.n)) \o key.n \o key.e \o key.d
                  \o PEM_PRIVATE_END]

\* The body of a PEM document between the two marker lines, None when a
\* marker is not there.
PemBody(pem, begin, end) ==
    IF Len(pem) < Len(begin) + Len(end) THEN None
    ELSE IF Take(pem, Len(begin)) # begin THEN None
    ELSE IF Drop(pem, Len(pem) - Len(end)) # end THEN None
    ELSE Some(SubSeq(pem, Len(begin) + 1, Len(pem) - Len(end)))

\* Rsa::public_key_from_pem: the key, or an ErrorStack for bytes that are no
\* PEM public key.
public_key_from_pem(pem) ==
    LET b == PemBody(pem, PEM_PUBLIC_BEGIN, PEM_PUBLIC_END)
    IN  IF ~is_some(b) THEN [ok |-> FALSE, key |-> <<>>]
        ELSE LET der == unwrap(b)
                 k == IF Len(der) >= 2 THEN (der[1] * ByteMod) + der[2] ELSE 0
             IN  IF k = 0 \/ Len(der) # 2 + k + 3 THEN [ok |-> FALSE, key |-> <<>>]
                 ELSE [ok |-> TRUE,
                       key |-> [n |-> SubSeq(der, 3, 2 + k), e |-> SubSeq(der, 3 + k, 5 + k)]]

\* Rsa::private_key_from_pem
private_key_from_pem(pem) ==
    LET b == PemBody(pem, PEM_PRIVATE_BEGIN, PEM_PRIVATE_END)
    IN  IF ~is_some(b) THEN [ok |-> FALSE, key |-> <<>>]
        ELSE LET der == unwrap(b)
                 k == IF Len(der) >= 2 THEN (der[1] * ByteMod) + der[2] ELSE 0
             IN  IF k = 0 \/ Len(der) # 2 + k + 3 + k THEN [ok |-> FALSE, key |-> <<>>]
                 ELSE [ok |-> TRUE,
                       key |-> [n |-> SubSeq(der, 3, 2 + k), e |-> SubSeq(der, 3 + k, 5 + k),
                                d |-> SubSeq(der, 6 + k, 5 + k + k)]]

\* Stand-in for c = m^e mod n on a block of Rsa_size bytes whose first byte is
\* 0: every byte but the first is shifted by the modulus byte, the first
\* byte is a check value below the first modulus byte, so that c < n.
RsaPublicOp(key, m) ==
    LET k == Len(key.n)
        body == AsSeq([i \in 1..k |-> (m[i] + key.n[i] + i) % ByteMod])
    IN  AsSeq([i \in 1..k |->
            IF i = 1 THEN (m[1] + body[2] + body[k]) % key.n[1] ELSE body[i]])

\* Stand-in for m = c^d mod n.
RsaPrivateOp(key, c) ==
    LET k == Len(key.n)
    IN  AsSeq([i \in 1..k |->
            IF i = 1 THEN (c[1] + ByteMod - ((c[2] + c[k]) % key.n[1])) % ByteMod
            ELSE (c[i] + key.d[i] + (4 * ByteMod) - i) % ByteMod])

\* Whether the block c is, as a number, below the modulus.
BelowModulus(c, n) ==
    LET diff == {i \in 1..Len(n) : c[i] # n[i]}
    IN  IF diff = {} THEN FALSE
        ELSE LET i == CHOOSE x \in diff : \A y \in diff : x <= y
             IN  c[i] < n[i]

\* The padding string: bytes other than 0 out of the generator.
PaddingString(rng, n) == AsSeq([i \in 1..n |-> (((rng * 100) + i) % (ByteMod - 1)) + 1])

\* Rsa::public_encrypt(from, to, Padding::PKCS1): the block 00 02 PS 00 from
\* under the public key, written to `to`; the length written is returned.  An
\* ErrorStack when from is longer than size - 11 or the library fails.
public_encrypt(e, rng, key, from, to) ==
    LET k == Rsa_size(key)
    IN  IF e = "rsa_error" \/ Len(from) > k - RSA_PKCS1_PADDING_SIZE
        THEN [ok |-> FALSE, len |-> 0, to |-> to]
        ELSE LET em == <<0, 2>> \o PaddingString(rng, k - 3 - Len(from)) \o <<0>> \o from
                 c == RsaPublicOp(key, em)
             IN  [ok |-> TRUE, len |-> k, to |-> c \o Drop(to, k)]

\* What a build with implicit rejection hands out for a block whose padding
\* is not valid: a message made up from the block, shorter than size - 10.
SyntheticMessage(c, k) ==
    LET n == c[k] % (k - (RSA_PKCS1_PADDING_SIZE - 1))
    IN  AsSeq([i \in 1..n |-> (c[i] + i) % ByteMod])

\* Rsa::private_decrypt(from, to, Padding::PKCS1): from as a number (at most
\* size bytes, below the modulus) under the private key; the block must read
\* 00 02, eight or more bytes other than 0, 00, and what follows is written
\* to the start of `to` and its length returned.  An ErrorStack otherwise,
\* and in a build with implicit rejection a made-up message for a block with
\* invalid padding.
private_decrypt(e, key, from, to) ==
    LET k == Rsa_size(key)
        fail == [ok |-> FALSE, len |-> 0, to |-> to]
    IN  IF e = "rsa_error" \/ Len(from) > k THEN fail
        ELSE LET c == Zeros(k - Len(from)) \o from
             IN  IF ~BelowModulus(c, key.n) THEN fail
                 ELSE LET em == RsaPrivateOp(key, c)
                          zs == {i \in 3..k : em[i] = 0}
                          z == IF zs = {} THEN 0 ELSE CHOOSE x \in zs : \A y \in zs : x <= y
                          valid == em[1] = 0 /\ em[2] = 2 /\ z >= RSA_PKCS1_PADDING_SIZE
                          msg == IF valid THEN Drop(em, z) ELSE SyntheticMessage(c, k)
                      IN  IF valid \/ e = "implicit_rejection"
                          THEN [ok |-> TRUE, len |-> Len(msg), to |-> msg \o Drop(to, Len(msg))]
                          ELSE fail

(***************************************************************************)
(* encrypt_util.rs: generate_rsa_keypair, RSAResult, rsa_encrypt,          *)
(* rsa_encrypt_without_key, rsa_decrypt                                    *)
(***************************************************************************)
MSG_RSA_KEYPAIR == "error while generating the RSA key pair"

MSG_RSA_PUBLIC_PEM == "error in the public key"

MSG_RSA_PRIVATE_PEM == "error in the private key"

MSG_RSA_PRIVATE_KEY == "private key error"

MSG_RSA_DECRYPT == "error while processing RSA decryption"

MSG_RSA_ENCRYPT == "error while processing RSA encryption"

\* generate_rsa_keypair asking for bytes() bits.
generate_rsa_keypair_bytes(e, rng, bit_size) ==
    LET rsa == Rsa_generate(e, rng, bytes(bit_size))
    IN  IF ~rsa.ok THEN Err("CryptoError", MSG_RSA_KEYPAIR, <<"Rsa::generate">>)
        ELSE Ok(rsa.key, <<"Rsa::generate">>)

generate_rsa_keypair(e, rng, bit_size) ==
    LET rsa == Rsa_generate(e, rng, bit(bit_size))
    IN  IF ~rsa.ok THEN Err("CryptoError", MSG_RSA_KEYPAIR, <<"Rsa::generate">>)
        ELSE Ok(rsa.key, <<"Rsa::generate">>)

\* RSAResult::new storing the private exponent as the private modulus and
\* the other way round.
RSAResult_new_swapped(pub_key, pub_mod, pub_exp, prv_key, prv_mod, prv_exp, result) ==
    [public_key |-> pub_key, public_modulus |-> pub_mod, public_exponent |-> pub_exp,
     private_key |-> prv_key, private_modulus |-> prv_exp, private_exponent |-> prv_mod,
     result |-> result]

RSAResult_new(pub_key, pub_mod, pub_exp, prv_key, prv_mod, prv_exp, result) ==
    [public_key |-> pub_key, public_modulus |-> pub_mod, public_exponent |-> pub_exp,
     private_key |-> prv_key, private_modulus |-> prv_mod, private_exponent |-> prv_exp,
     result |-> result]

\* rsa_encrypt reporting a failed encryption as InvalidArgumentError.
rsa_encrypt_invalid_argument(e, rng, target, pub_key) ==
    LET parsed == public_key_from_pem(pub_key)
        c1 == <<"Rsa::public_key_from_pem">>
    IN  IF ~parsed.ok THEN Panicked(c1)
        ELSE LET rsa == parsed.key
                 buffer == Zeros(Rsa_size(rsa))
                 result == public_encrypt(e, rng, rsa, target, buffer)
                 c2 == c1 \o <<"Rsa::public_encrypt">>
             IN  IF ~result.ok THEN Err("InvalidArgumentError", MSG_RSA_ENCRYPT, c2)
                 ELSE Ok(result.to, c2)

\* fn rsa_encrypt, lines 929-945.  The unwrap() of line 931 panics on a key
\* that does not parse.
rsa_encrypt(e, rng, target, pub_key) ==
    LET parsed == public_key_from_pem(pub_key)
        c1 == <<"Rsa::public_key_from_pem">>
    IN  IF ~parsed.ok THEN Panicked(c1)
        ELSE LET rsa == parsed.key
                 buffer == Zeros(Rsa_size(rsa))
                 result == public_encrypt(e, rng, rsa, target, buffer)
                 c2 == c1 \o <<"Rsa::public_encrypt">>
             IN  IF ~result.ok THEN Err("CryptoError", MSG_RSA_ENCRYPT, c2)
                 ELSE Ok(result.to, c2)

rsa_encrypt_without_key(e, rng, target, bit_size) ==
    LET generated == generate_rsa_keypair(e, rng, bit_size)
    IN  IF generated.kind # "Ok" THEN generated
        ELSE LET key_pair == unwrap(generated.value)
                 public_key == public_key_to_pem(e, key_pair)
                 private_key == private_key_to_pem(e, key_pair)
                 c1 == generated.calls \o <<"Rsa::public_key_to_pem", "Rsa::private_key_to_pem">>
             IN  IF ~public_key.ok THEN Err("CryptoError", MSG_RSA_PUBLIC_PEM, c1)
                 ELSE IF ~private_key.ok THEN Err("CryptoError", MSG_RSA_PRIVATE_PEM, c1)
                 ELSE LET unwrapped_pub_key == public_key.val
                          unwrapped_prv_key == private_key.val
                          result == rsa_encrypt(e, rng, target, unwrapped_pub_key)
                          c2 == c1 \o result.calls
                      IN  IF result.kind # "Ok" THEN [result EXCEPT !.calls = c2]
                          ELSE Ok(RSAResult_new(unwrapped_pub_key, key_pair.n, key_pair.e,
                                                unwrapped_prv_key, key_pair.n, key_pair.d,
                                                unwrap(result.value)), c2)

\* rsa_decrypt decrypting without padding (Padding::NONE): the whole block.
rsa_decrypt_no_padding(e, target, prv_key) ==
    LET private_key == private_key_from_pem(prv_key)
        c1 == <<"Rsa::private_key_from_pem">>
    IN  IF ~private_key.ok THEN Err("CryptoError", MSG_RSA_PRIVATE_KEY, c1)
        ELSE LET rsa == private_key.key
                 c2 == c1 \o <<"Rsa::private_decrypt">>
             IN  IF e = "rsa_error" \/ Len(target) # Rsa_size(rsa)
                 THEN Err("CryptoError", MSG_RSA_DECRYPT, c2)
                 ELSE Ok(RsaPrivateOp(rsa, target), c2)

\* rsa_decrypt returning the whole buffer.
rsa_decrypt_whole_buffer(e, target, prv_key) ==
    LET private_key == private_key_from_pem(prv_key)
        c1 == <<"Rsa::private_key_from_pem">>
    IN  IF ~private_key.ok THEN Err("CryptoError", MSG_RSA_PRIVATE_KEY, c1)
        ELSE LET rsa == private_key.key
                 buffer == Zeros(Rsa_size(rsa))
                 result == private_decrypt(e, rsa, target, buffer)
                 c2 == c1 \o <<"Rsa::private_decrypt">>
             IN  IF ~result.ok THEN Err("CryptoError", MSG_RSA_DECRYPT, c2)
                 ELSE Ok(result.to, c2)

rsa_decrypt(e, target, prv_key) ==
    LET private_key == private_key_from_pem(prv_key)
        c1 == <<"Rsa::private_key_from_pem">>
    IN  IF ~private_key.ok THEN Err("CryptoError", MSG_RSA_PRIVATE_KEY, c1)
        ELSE LET rsa == private_key.key
                 buffer == Zeros(Rsa_size(rsa))
                 result == private_decrypt(e, rsa, target, buffer)
                 c2 == c1 \o <<"Rsa::private_decrypt">>
             IN  IF ~result.ok THEN Err("CryptoError", MSG_RSA_DECRYPT, c2)
                 ELSE LET real_size == result.len
                          final_result == SubSeq(result.to, 1, real_size)
                      IN  Ok(final_result, c2)

(***************************************************************************)
(* RSA: the callers' inputs and the state machine                          *)
(***************************************************************************)
MaxRng == 1

\* The library conditions of the process: everything works, key generation
\* fails, the PEM export of the public or of the private key fails, the RSA
\* operation fails, and a build whose PKCS#1 v1.5 decryption rejects
\* implicitly.
RsaEnvs ==
    {"ok", "keygen_error", "pub_pem_error", "prv_pem_error", "rsa_error", "implicit_rejection"}

\* A key pair made with the crate and the library in working order, as PEM.
PemPair(rng, bit_size) ==
    LET key == unwrap(generate_rsa_keypair("ok", rng, bit_size).value)
    IN  [public |-> public_key_to_pem("ok", key).val, private |-> private_key_to_pem("ok", key).val]

\* The empty plaintext, "T", the bytes 0xff 0x00, the longest plaintext the
\* padding leaves room for and one byte more.
RsaTargets ==
    LET k == bytes(cfg.bit_size)
    IN  {Str(84, n) : n \in {0, 1, k - RSA_PKCS1_PADDING_SIZE, k - RSA_PKCS1_PADDING_SIZE + 1}}
        \cup {Str(255, 2)}

\* Bytes that are no PEM public key: nothing, plain text, the caller's public
\* key cut short by a byte, the caller's private key.
BadPublicKeys ==
    {<<>>, Str(110, 9), Take(cfg.public_pem, Len(cfg.public_pem) - 1), cfg.private_pem}

\* What the caller decrypts: the ciphertext it kept with the private key that
\* belongs to it, or (nothing kept) a block of bytes with its own private key.
RsaBase ==
    IF is_some(kept)
    THEN [target |-> unwrap(kept).result, prv_key |-> unwrap(kept).private_key]
    ELSE [target |-> Str(1, bytes(cfg.bit_size)), prv_key |-> cfg.private_pem]

\* The matching arguments, or the target replaced (empty, cut short by a
\* byte, last byte changed, first byte 0xff, a byte longer), or the key
\* replaced (nothing, plain text, cut short by a byte, the public key, the
\* private key of another pair).
RsaDecryptArgs ==
    LET b == RsaBase
        ct == b.target
    IN  {[b EXCEPT !.target = t] :
            t \in {ct, <<>>, Take(ct, Len(ct) - 1),
                   AsSeq([ct EXCEPT ![Len(ct)] = (ct[Len(ct)] + 1) % ByteMod]),
                   AsSeq([ct EXCEPT ![1] = ByteMod - 1]), ct \o <<0>>}}
        \cup {[b EXCEPT !.prv_key = x] :
            x \in {<<>>, Str(110, 9), Take(b.prv_key, Len(b.prv_key) - 1), cfg.public_pem,
                   cfg.foreign_pem}}

NoRsaCall ==
    [op |-> "none", target |-> <<>>, key |-> <<>>, bit_size |-> "B_1024",
     out |-> Err("none", "", <<>>)]

\* The caller holds a key pair of its own as PEM and the private key of a
\* pair that is not its own; rng is the state of the library's generator.
InitRsa ==
    /\ env \in RsaEnvs
    /\ \E bit_size \in RSA_BITS, rng \in 1..MaxRng :
          cfg = [bit_size |-> bit_size, rng |-> rng,
                 public_pem |-> PemPair(rng + MaxRng, bit_size).public,
                 private_pem |-> PemPair(rng + MaxRng, bit_size).private,
                 foreign_pem |-> PemPair(rng + (2 * MaxRng), bit_size).private]
    /\ kept = None
    /\ last = NoRsaCall

\* A call of rsa_encrypt_without_key; the caller may keep the RSAResult.
RsaEncryptWithoutKey ==
    \E target \in RsaTargets, keep \in BOOLEAN :
        LET r == rsa_encrypt_without_key(env, cfg.rng, target, cfg.bit_size)
        IN  /\ keep => r.kind = "Ok"
            /\ last' = [op |-> "rsa_encrypt_without_key", target |-> target, key |-> <<>>,
                        bit_size |-> cfg.bit_size, out |-> r]
            /\ kept' = IF keep
                       THEN Some([by |-> "rsa_encrypt_without_key", target |-> target,
                                  result |-> unwrap(r.value).result,
                                  public_key |-> unwrap(r.value).public_key,
                                  private_key |-> unwrap(r.value).private_key])
                       ELSE kept
            /\ UNCHANGED <<env, cfg>>

\* A call of rsa_encrypt with the caller's public key, or with bytes that are
\* no public key; the caller may keep the ciphertext with its key pair.
RsaEncrypt ==
    \E target \in RsaTargets, pub_key \in {cfg.public_pem} \cup BadPublicKeys, keep \in BOOLEAN :
        LET r == rsa_encrypt(env, cfg.rng, target, pub_key)
        IN  /\ pub_key # cfg.public_pem => Len(target) = 1
            /\ keep => r.kind = "Ok"
            /\ last' = [op |-> "rsa_encrypt", target |-> target, key |-> pub_key,
                        bit_size |-> cfg.bit_size, out |-> r]
            /\ kept' = IF keep
                       THEN Some([by |-> "rsa_encrypt", target |-> target,
                                  result |-> unwrap(r.value), public_key |-> pub_key,
                                  private_key |-> cfg.private_pem])
                       ELSE kept
            /\ UNCHANGED <<env, cfg>>

\* A call of rsa_decrypt.
RsaDecrypt ==
    \E a \in RsaDecryptArgs :
        /\ last' = [op |-> "rsa_decrypt", target |-> a.target, key |-> a.prv_key,
                    bit_size |-> cfg.bit_size, out |-> rsa_decrypt(env, a.target, a.prv_key)]
        /\ UNCHANGED <<env, cfg, kept>>

NextRsa == RsaEncryptWithoutKey \/ RsaEncrypt \/ RsaDecrypt

SpecRsa == InitRsa /\ [][NextRsa]_vars

(***************************************************************************)
(* RSA: properties                                                         *)
(***************************************************************************)
IsRsaEncrypt == last.op = "rsa_encrypt"

IsRsaEncryptWithoutKey == last.op = "rsa_encrypt_without_key"

IsRsaDecrypt == last.op = "rsa_decrypt"

\* The last call was rsa_decrypt of the kept ciphertext with the private key
\* of the pair that made it.
RsaDecryptsKept ==
    /\ IsRsaDecrypt
    /\ is_some(kept)
    /\ last.target = unwrap(kept).result
    /\ last.key = unwrap(kept).private_key

\* C15: for every RSA_BIT size and every plaintext, a successful rsa_encrypt
\* with a public key of that size returns exactly RSA_BIT::bytes() bytes,
\* where bytes() = bit()/8 maps 1024 to 128, 2048 to 256, 4096 to 512 and 8192
\* to 1024, whatever the length of the plaintext is.
RsaCiphertextLength ==
    (IsRsaEncrypt /\ last.out.kind = "Ok") =>
        /\ Len(unwrap(last.out.value)) = bytes(last.bit_size)
        /\ bytes(last.bit_size) * 8 = bit(last.bit_size)
        /\ bytes(last.bit_size) =
              (CASE last.bit_size = "B_1024" -> 128
                 [] last.bit_size = "B_2048" -> 256
                 [] last.bit_size = "B_4096" -> 512
                 [] last.bit_size = "B_8192" -> 1024)

\* One byte was encrypted with a key of 8192 bits into 1024 bytes.
RsaCiphertextLengthWitness ==
    /\ IsRsaEncrypt
    /\ last.bit_size = "B_8192"
    /\ Len(last.target) = 1
    /\ last.out.kind = "Ok"
    /\ Len(unwrap(last.out.value)) = 1024

\* C16: RSA round trip.  For every RSA_BIT size and every plaintext short
\* enough for the modulus, rsa_decrypt of the ciphertext rsa_encrypt made
\* with the public key, with the private key of the same pair, returns
\* exactly the plaintext.
RsaRoundTrip ==
    RsaDecryptsKept =>
        /\ last.out.kind = "Ok"
        /\ last.out.value = Some(unwrap(kept).target)

\* The longest plaintext a key of 4096 bits takes, encrypted by rsa_encrypt,
\* came back.
RsaRoundTripWitness ==
    /\ RsaDecryptsKept
    /\ unwrap(kept).by = "rsa_encrypt"
    /\ last.bit_size = "B_4096"
    /\ Len(unwrap(kept).target) = 512 - RSA_PKCS1_PADDING_SIZE
    /\ last.out.value = Some(unwrap(kept).target)

\* C17: rsa_decrypt returns exactly the number of bytes the decrypt primitive
\* reports as plaintext length, the start of the work buffer and never the
\* whole of it: the returned length is smaller than the modulus size, and
\* for a ciphertext of the matching pair the result is the plaintext with no
\* padding and no zero bytes of the buffer behind it.
RsaDecryptTrimmed ==
    (IsRsaDecrypt /\ last.out.kind = "Ok") =>
        LET rsa == private_key_from_pem(last.key).key
            buffer == Zeros(Rsa_size(rsa))
            result == private_decrypt(env, rsa, last.target, buffer)
            value == unwrap(last.out.value)
        IN  /\ Len(value) = result.len
            /\ value = Take(result.to, result.len)
            /\ Len(value) < Rsa_size(rsa)
            /\ RsaDecryptsKept => value = unwrap(kept).target

\* A one-byte plaintext came back as one byte out of a buffer of 256.
RsaDecryptTrimmedWitness ==
    /\ RsaDecryptsKept
    /\ last.bit_size = "B_2048"
    /\ Len(unwrap(kept).target) = 1
    /\ last.out.kind = "Ok"
    /\ Len(unwrap(last.out.value)) = 1

\* C18: key-parse failures are returned as CryptoError values: rsa_encrypt
\* given bytes that are no parseable PEM public key returns Err(CryptoError),
\* rsa_decrypt given bytes that are no parseable PEM private key returns
\* Err(CryptoError); neither aborts the caller.
RsaKeyParseFailureIsCryptoError ==
    /\ (IsRsaEncrypt /\ ~public_key_from_pem(last.key).ok) => last.out.kind = "CryptoError"
    /\ (IsRsaDecrypt /\ ~private_key_from_pem(last.key).ok) => last.out.kind = "CryptoError"

\* C20: every RSAResult returned by rsa_encrypt_without_key(target, bit_size)
\* is self-consistent: the six key fields are not empty, public_modulus()
\* equals private_modulus(), result() has bit_size.bytes() bytes, and
\* rsa_decrypt(result(), private_key()) returns target.
RsaResultSelfConsistent ==
    (IsRsaEncryptWithoutKey /\ last.out.kind = "Ok") =>
        LET raw == unwrap(last.out.value)
        IN  /\ Len(raw.public_key) > 0
            /\ Len(raw.public_modulus) > 0
            /\ Len(raw.public_exponent) > 0
            /\ Len(raw.private_key) > 0
            /\ Len(raw.private_modulus) > 0
            /\ Len(raw.private_exponent) > 0
            /\ raw.public_modulus = raw.private_modulus
            /\ raw.private_modulus = private_key_from_pem(raw.private_key).key.n
            /\ Len(raw.result) = bytes(last.bit_size)
            /\ rsa_decrypt(env, raw.result, raw.private_key).value = Some(last.target)

\* An RSAResult for the bytes 0xff 0x00 under a fresh key of 1024 bits was
\* returned.
RsaResultSelfConsistentWitness ==
    /\ IsRsaEncryptWithoutKey
    /\ last.bit_size = "B_1024"
    /\ last.target = Str(255, 2)
    /\ last.out.kind = "Ok"
    /\ Len(unwrap(last.out.value).result) = 128

(***************************************************************************)
(* Symmetric operations: no panic                                          *)
(***************************************************************************)
\* C19: no symmetric operation throws past its boundary: aes_encrypt and
\* aes_decrypt end with Ok or with a LibError value for every input, an iv
\* whose length is not 16 bytes, an empty secret and a repeat_count of 0
\* included.
SymmetricNeverPanics ==
    (IsEncrypt \/ IsDecrypt) =>
        last.out.kind \in {"Ok", "MissingArgumentError", "InvalidArgumentError", "CryptoError"}

(***************************************************************************)
(* Callers on independent threads                                          *)
(***************************************************************************)
\* Two threads of the process call the crate at the same time.
Threads == {"t1", "t2"}

\* How often the generator of the library is drawn from in a behaviour.
MaxDraws == 4

\* The library in working order.
ConcLib == "ok"

\* A generator that hands out again what it handed out before.
Rng_draw_repeating(rng) == rng

\* The generator of the linked OpenSSL is the one piece of process state a
\* call touches (Rsa::generate, the padding string of public_encrypt): a draw,
\* made under the library's lock, leaves it in another state.
Rng_draw(rng) == rng + 1

\* The arguments of a call; a function reads the ones it has.
ConcJob(op, type, target, secret, iv, salt, repeat_count, key) ==
    [op |-> op, type |-> type, target |-> target, secret |-> secret, iv |-> iv,
     salt |-> salt, repeat_count |-> repeat_count, key |-> key]

\* A key pair and an AESResult the callers hold from earlier.
ConcPair == PemPair(MaxDraws + 1, "B_1024")

ConcAes ==
    unwrap(aes_encrypt(ConcLib, "AES_128", Str(84, 1), Str(97, 3),
                       Some(Str(115, PKCS5_SALT_LEN)), usize(1)).value)

\* The calls the threads make: two hashes, an encryption and the decryption
\* of its result, an RSA decryption of a ciphertext made with the callers'
\* public key, and an RSA encryption under a key of its own.
ConcJobs ==
    {ConcJob("make_sha_hash", "SHA_256", Str(116, 1), <<>>, <<>>, Some(Str(115, 1)), usize(0),
             <<>>),
     ConcJob("make_sha_hash", "SHA_512", Str(255, 2), <<>>, <<>>, None, usize(0), <<>>),
     ConcJob("aes_encrypt", "AES_128", Str(84, 1), Str(97, 3), <<>>,
             Some(Str(115, PKCS5_SALT_LEN)), usize(1), <<>>),
     ConcJob("aes_decrypt", "AES_128", ConcAes.result, Str(97, 3), ConcAes.iv,
             Some(Str(115, PKCS5_SALT_LEN)), usize(1), <<>>),
     ConcJob("rsa_decrypt", "B_1024",
             unwrap(rsa_encrypt(ConcLib, MaxDraws + 1, Str(84, 1), ConcPair.public).value),
             <<>>, <<>>, None, usize(0), ConcPair.private),
     ConcJob("rsa_encrypt_without_key", "B_1024", Str(84, 1), <<>>, <<>>, None, usize(0),
             <<>>)}

\* The local variables of a call: they live in the frame of the thread that
\* makes it.
NoLocals ==
    [hasher |-> <<>>, key_spec |-> <<>>, rsa |-> <<>>, public_key |-> <<>>,
     private_key |-> <<>>]

\* The frame of a thread: where it is in its call (idle before the first,
\* returned after one), the arguments, the locals, the Result once returned,
\* and whether another thread ran while the call was under way.
IdleFrame ==
    [pc |-> "idle", job |-> ConcJob("none", "", <<>>, <<>>, <<>>, None, usize(0), <<>>),
     loc |-> NoLocals, out |-> Err("none", "", <<>>), overlapped |-> FALSE]

Go(f, pc, loc) == [f EXCEPT !.pc = pc, !.loc = loc]

Ret(f, out) == [f EXCEPT !.pc = "returned", !.loc = NoLocals, !.out = out]

\* make_sha_hash and _hash_, a statement at a time.
make_sha_hash_step(f) ==
    LET j == f.job
    IN  CASE f.pc = "start" ->
               IF j.target = <<>> THEN Ret(f, Err("MissingArgumentError", MSG_HASH_EMPTY, <<>>))
               ELSE Go(f, "update_target", [f.loc EXCEPT !.hasher = Digest_new])
          [] f.pc = "update_target" ->
               Go(f, "update_salt", [f.loc EXCEPT !.hasher = Digest_update(@, j.target)])
          [] f.pc = "update_salt" ->
               IF is_some(j.salt) /\ unwrap(j.salt) # <<>>
               THEN Go(f, "finalize", [f.loc EXCEPT !.hasher = Digest_update(@, unwrap(j.salt))])
               ELSE Go(f, "finalize", f.loc)
          [] f.pc = "finalize" -> Ret(f, Ok(Digest_finalize(j.type, f.loc.hasher), <<>>))

\* aes_encrypt, a library call at a time.
aes_encrypt_step(f) ==
    LET j == f.job
        cipher == IF j.type = "AES_128" THEN "AES_128" ELSE "AES_256"
        count == as_i32(j.repeat_count)
        c1 == <<Call("bytes_to_key", count, <<>>, <<>>)>>
    IN  CASE f.pc = "start" ->
               IF j.target = <<>> THEN Ret(f, Err("InvalidArgumentError", MSG_ENC_EMPTY, <<>>))
               ELSE IF ~validate_salt(j.salt)
               THEN Ret(f, Err("InvalidArgumentError", MSG_SALT, <<>>))
               ELSE Go(f, "bytes_to_key", f.loc)
          [] f.pc = "bytes_to_key" ->
               LET key_spec == bytes_to_key(ConcLib, cipher, j.secret, j.salt, count)
               IN  IF ~key_spec.ok THEN Ret(f, Err("CryptoError", MSG_ENC_KEY, c1))
                   ELSE Go(f, "encrypt", [f.loc EXCEPT !.key_spec = key_spec])
          [] f.pc = "encrypt" ->
               LET key == f.loc.key_spec.key
                   iv == f.loc.key_spec.iv
                   result == encrypt(ConcLib, cipher, key, iv, j.target)
                   c2 == c1 \o <<Call("encrypt", 0, key, iv)>>
               IN  IF result.panic THEN Ret(f, Panicked(c2))
                   ELSE IF result.ok THEN Ret(f, Ok(AESResult_new(j.salt, result.val, iv), c2))
                   ELSE Ret(f, Err("InvalidArgumentError", MSG_ENC_CIPHER, c2))

\* aes_decrypt, a library call at a time.
aes_decrypt_step(f) ==
    LET j == f.job
        cipher == IF j.type = "AES_128" THEN "AES_128" ELSE "AES_256"
        count == as_i32(j.repeat_count)
        c1 == <<Call("bytes_to_key", count, <<>>, <<>>)>>
    IN  CASE f.pc = "start" ->
               IF Len(j.target) = 0 THEN Ret(f, Err("InvalidArgumentError", MSG_DEC_EMPTY, <<>>))
               ELSE IF ~validate_salt(j.salt)
               THEN Ret(f, Err("InvalidArgumentError", MSG_SALT, <<>>))
               ELSE Go(f, "bytes_to_key", f.loc)
          [] f.pc = "bytes_to_key" ->
               LET key_spec == bytes_to_key(ConcLib, cipher, j.secret, j.salt, count)
               IN  IF ~key_spec.ok THEN Ret(f, Err("CryptoError", MSG_DEC_KEY, c1))
                   ELSE Go(f, "decrypt", [f.loc EXCEPT !.key_spec = key_spec])
          [] f.pc = "decrypt" ->
               LET key == f.loc.key_spec.key
                   result == decrypt(ConcLib, cipher, key, j.iv, j.target)
                   c2 == c1 \o <<Call("decrypt", 0, key, j.iv)>>
               IN  IF result.panic THEN Ret(f, Panicked(c2))
                   ELSE IF result.ok THEN Ret(f, Ok(result.val, c2))
                   ELSE Ret(f, Err("InvalidArgumentError", MSG_DEC_CIPHER, c2))

\* rsa_decrypt, a library call at a time.
rsa_decrypt_step(f) ==
    LET j == f.job
        c1 == <<"Rsa::private_key_from_pem">>
    IN  CASE f.pc = "start" ->
               LET private_key == private_key_from_pem(j.key)
               IN  IF ~private_key.ok THEN Ret(f, Err("CryptoError", MSG_RSA_PRIVATE_KEY, c1))
                   ELSE Go(f, "private_decrypt", [f.loc EXCEPT !.rsa = private_key.key])
          [] f.pc = "private_decrypt" ->
               LET rsa == f.loc.rsa
                   buffer == Zeros(Rsa_size(rsa))
                   result == private_decrypt(ConcLib, rsa, j.target, buffer)
                   c2 == c1 \o <<"Rsa::private_decrypt">>
               IN  IF ~result.ok THEN Ret(f, Err("CryptoError", MSG_RSA_DECRYPT, c2))
                   ELSE Ret(f, Ok(SubSeq(result.to, 1, result.len), c2))

\* rsa_encrypt_without_key, a library call at a time; rng is the state the
\* generator is in when the call draws from it.
rsa_encrypt_without_key_step(f, rng) ==
    LET j == f.job
        c1 == <<"Rsa::generate", "Rsa::public_key_to_pem", "Rsa::private_key_to_pem">>
    IN  CASE f.pc = "start" ->
               LET generated == generate_rsa_keypair(ConcLib, rng, j.type)
               IN  IF generated.kind # "Ok" THEN Ret(f, generated)
                   ELSE Go(f, "to_pem", [f.loc EXCEPT !.rsa = unwrap(generated.value)])
          [] f.pc = "to_pem" ->
               LET public_key == public_key_to_pem(ConcLib, f.loc.rsa)
                   private_key == private_key_to_pem(ConcLib, f.loc.rsa)
               IN  IF ~public_key.ok THEN Ret(f, Err("CryptoError", MSG_RSA_PUBLIC_PEM, c1))
                   ELSE IF ~private_key.ok
                   THEN Ret(f, Err("CryptoError", MSG_RSA_PRIVATE_PEM, c1))
                   ELSE Go(f, "rsa_encrypt", [f.loc EXCEPT !.public_key = public_key.val,
                                                           !.private_key = private_key.val])
          [] f.pc = "rsa_encrypt" ->
               LET key_pair == f.loc.rsa
                   result == rsa_encrypt(ConcLib, rng, j.target, f.loc.public_key)
                   c2 == c1 \o result.calls
               IN  IF result.kind # "Ok" THEN Ret(f, [result EXCEPT !.calls = c2])
                   ELSE Ret(f, Ok(RSAResult_new(f.loc.public_key, key_pair.n, key_pair.e,
                                                f.loc.private_key, key_pair.n, key_pair.d,
                                                unwrap(result.value)), c2))

\* Whether the next step of the frame draws from the generator.
Draws(f) == f.job.op = "rsa_encrypt_without_key" /\ f.pc \in {"start", "rsa_encrypt"}

StepOf(f, rng) ==
    CASE f.job.op = "make_sha_hash" -> make_sha_hash_step(f)
      [] f.job.op = "aes_encrypt" -> aes_encrypt_step(f)
      [] f.job.op = "aes_decrypt" -> aes_decrypt_step(f)
      [] f.job.op = "rsa_decrypt" -> rsa_decrypt_step(f)
      [] f.job.op = "rsa_encrypt_without_key" -> rsa_encrypt_without_key_step(f, rng)

InCall(f) == f.pc \notin {"idle", "returned"}

\* The frames after thread t moved to frame g: the calls of the other
\* threads that are under way have been overlapped.
Frames(t, g) ==
    [u \in Threads |->
        IF u = t THEN g
        ELSE IF InCall(kept[u]) THEN [kept[u] EXCEPT !.overlapped = TRUE]
        ELSE kept[u]]

\* env is the process: the state of the generator, and the moduli of the
\* key pairs that rsa_encrypt_without_key has returned so far.  kept holds
\* the frame of each thread, last the thread that ran last.
InitConc ==
    /\ env = [rng |-> 0, issued |-> <<>>]
    /\ cfg = [jobs |-> ConcJobs]
    /\ kept = [t \in Threads |-> IdleFrame]
    /\ last = "t1"

\* Thread t calls a function of the crate.
ConcCall(t) ==
    /\ ~InCall(kept[t])
    /\ \E j \in cfg.jobs :
          kept' = Frames(t, [IdleFrame EXCEPT !.pc = "start", !.job = j])
    /\ last' = t
    /\ UNCHANGED <<env, cfg>>

\* Thread t runs the next statement of its call.
ConcStep(t) ==
    LET f == kept[t]
        g == StepOf(f, env.rng)
        fresh == g.pc = "returned" /\ f.job.op = "rsa_encrypt_without_key" /\ g.out.kind = "Ok"
    IN  /\ InCall(f)
        /\ Draws(f) => env.rng < MaxDraws
        /\ kept' = Frames(t, g)
        /\ env' = [rng |-> IF Draws(f) THEN Rng_draw(env.rng) ELSE env.rng,
                   issued |-> IF fresh
                              THEN Append(env.issued, unwrap(g.out.value).public_modulus)
                              ELSE env.issued]
        /\ last' = t
        /\ UNCHANGED cfg

NextConc == \E t \in Threads : ConcCall(t) \/ ConcStep(t)

SpecConc == InitConc /\ [][NextConc]_vars

(***************************************************************************)
(* Callers on independent threads: properties                              *)
(***************************************************************************)
\* What the call returns when it runs alone.
Alone(j) ==
    CASE j.op = "make_sha_hash" -> make_sha_hash(j.type, j.target, j.salt)
      [] j.op = "aes_encrypt" ->
           aes_encrypt(ConcLib, j.type, j.target, j.secret, j.salt, j.repeat_count)
      [] j.op = "aes_decrypt" ->
           aes_decrypt(ConcLib, j.type, Some(j.target), j.secret, j.iv, j.salt, j.repeat_count)
      [] j.op = "rsa_decrypt" -> rsa_decrypt(ConcLib, j.target, j.key)

ERROR_KINDS == {"MissingArgumentError", "InvalidArgumentError", "CryptoError"}

\* The messages of Default::default(), written as ASCII glosses of the
\* crate's Korean texts.
MSG_DEFAULT_MISSING == "an argument is missing."

MSG_DEFAULT_INVALID == "the argument is not valid."

MSG_DEFAULT_CRYPTO == "an error occurred during encryption."

\* An error value is its type and its one field, message.
\* impl Default for MissingArgumentError, InvalidArgumentError, CryptoError.
Error_default(kind) ==
    CASE kind = "MissingArgumentError" -> [kind |-> kind, message |-> MSG_DEFAULT_MISSING]
      [] kind = "InvalidArgumentError" -> [kind |-> kind, message |-> MSG_DEFAULT_INVALID]
      [] kind = "CryptoError" -> [kind |-> kind, message |-> MSG_DEFAULT_CRYPTO]

\* From<&str> that drops the message for the one of default().
Error_from_canned(kind, value) == Error_default(kind)

\* impl From<&str>: message is value.to_owned().
Error_from(kind, value) == [kind |-> kind, message |-> value]

\* InvalidArgumentError::new
InvalidArgumentError_new(message) == [kind |-> "InvalidArgumentError", message |-> message]

\* LibError::get_message
get_message(self) == self.message

\* std::any::type_name::<T>(): the path of the type in the crate cliff3_util.
type_name(T) ==
    CASE T = "MissingArgumentError" -> "cliff3_util::error::MissingArgumentError"
      [] T = "InvalidArgumentError" -> "cliff3_util::error::InvalidArgumentError"
      [] T = "CryptoError" -> "cliff3_util::encrypt_util::CryptoError"
      [] T = "dyn LibError" -> "dyn cliff3_util::error::LibError"

\* get_type_name_from_instance naming the trait object instead of the type.
get_type_name_from_instance_dyn(self) == type_name("dyn LibError")

\* LibError::get_type_name_from_instance: each impl names its own type.
get_type_name_from_instance(self) ==
    CASE self.kind = "MissingArgumentError" -> type_name("MissingArgumentError")
      [] self.kind = "InvalidArgumentError" -> type_name("InvalidArgumentError")
      [] self.kind = "CryptoError" -> type_name("CryptoError")

\* #[derive(PartialEq)] on a struct of one field, for two values of a type.
eq(self, other) == self.message = other.message

\* Display::fmt
fmt(self) ==
    CASE self.kind = "MissingArgumentError" -> "Missing argument error."
      [] self.kind = "InvalidArgumentError" -> "Invalid argument error."
      [] self.kind = "CryptoError" -> "Encrypt/Decrypt error."

\* The Box<dyn LibError> a function of the crate returned as Err.
Boxed(out) == Error_from(out.kind, out.msg)

\* validate_email(None), string_util.rs
validate_email_none == Error_default("MissingArgumentError")

\* The messages callers build errors from: none, the crate's salt message,
\* a text of their own and the default message of InvalidArgumentError.
ErrorMessages == {"", MSG_SALT, "boom", MSG_DEFAULT_INVALID}

\* The error values there are for these messages.
ErrorValues ==
    {Error_default(k) : k \in ERROR_KINDS}
    \cup {Error_from(k, m) : k \in ERROR_KINDS, m \in ErrorMessages}

NoErrorCall == [op |-> "none", arg |-> "", err |-> None, other |-> None, out |-> ""]

\* kept is the error value the caller holds, last what the caller did last.
InitError ==
    /\ env = "ok"
    /\ cfg = [messages |-> ErrorMessages]
    /\ kept = None
    /\ last = NoErrorCall

\* T::default()
ErrorDefault ==
    \E kind \in ERROR_KINDS :
        LET e == Error_default(kind)
        IN  /\ kept' = Some(e)
            /\ last' = [op |-> "default", arg |-> "", err |-> Some(e), other |-> None, out |-> ""]
            /\ UNCHANGED <<env, cfg>>

\* T::from(value)
ErrorFrom ==
    \E kind \in ERROR_KINDS, value \in cfg.messages :
        LET e == Error_from(kind, value)
        IN  /\ kept' = Some(e)
            /\ last' = [op |-> "from", arg |-> value, err |-> Some(e), other |-> None,
                        out |-> ""]
            /\ UNCHANGED <<env, cfg>>

\* InvalidArgumentError::new(message)
ErrorNew ==
    \E message \in cfg.messages :
        LET e == InvalidArgumentError_new(message)
        IN  /\ kept' = Some(e)
            /\ last' = [op |-> "new", arg |-> message, err |-> Some(e), other |-> None,
                        out |-> ""]
            /\ UNCHANGED <<env, cfg>>

\* The error a call of the crate returns: aes_encrypt with a salt of 4
\* bytes, make_sha_hash with an empty target, rsa_decrypt with a key that is
\* none, validate_email(None).
ErrorReturned ==
    \E e \in {Boxed(aes_encrypt(env, "AES_128", Str(84, 1), Str(97, 3), Some(Str(115, 4)),
                                usize(10))),
              Boxed(make_sha_hash("SHA_256", <<>>, None)),
              Boxed(rsa_decrypt(env, Str(1, 2), <<>>)),
              validate_email_none} :
        /\ kept' = Some(e)
        /\ last' = [op |-> "returned", arg |-> "", err |-> Some(e), other |-> None, out |-> ""]
        /\ UNCHANGED <<env, cfg>>

\* err.get_message()
ErrorGetMessage ==
    /\ is_some(kept)
    /\ last' = [op |-> "get_message", arg |-> "", err |-> kept, other |-> None,
                out |-> get_message(unwrap(kept))]
    /\ UNCHANGED <<env, cfg, kept>>

\* err.get_type_name_from_instance()
ErrorGetTypeName ==
    /\ is_some(kept)
    /\ last' = [op |-> "get_type_name_from_instance", arg |-> "", err |-> kept, other |-> None,
                out |-> get_type_name_from_instance(unwrap(kept))]
    /\ UNCHANGED <<env, cfg, kept>>

\* err == other, other of the type of err
ErrorEq ==
    /\ is_some(kept)
    /\ \E other \in {x \in ErrorValues : x.kind = unwrap(kept).kind} :
          last' = [op |-> "eq", arg |-> "", err |-> kept, other |-> Some(other),
                   out |-> eq(unwrap(kept), other)]
    /\ UNCHANGED <<env, cfg, kept>>

\* format!("{}", err)
ErrorDisplay ==
    /\ is_some(kept)
    /\ last' = [op |-> "fmt", arg |-> "", err |-> kept, other |-> None,
                out |-> fmt(unwrap(kept))]
    /\ UNCHANGED <<env, cfg, kept>>

NextError ==
    \/ ErrorDefault
    \/ ErrorFrom
    \/ ErrorNew
    \/ ErrorReturned
    \/ ErrorGetMessage
    \/ ErrorGetTypeName
    \/ ErrorEq
    \/ ErrorDisplay

SpecError == InitError /\ [][NextError]_vars

(***************************************************************************)
(* The error values: properties                                            *)
(***************************************************************************)
\* C22: the name get_type_name_from_instance returns for an error is the
\* name every error of its kind returns, whatever the message, and the name
\* no error of another kind returns.
TypeNamePerKind ==
    last.op = "get_type_name_from_instance" =>
        \A x \in ErrorValues :
            (get_type_name_from_instance(x) = last.out) <=> (x.kind = unwrap(last.err).kind)

\* The name of an InvalidArgumentError returned by aes_encrypt, whose
\* message is not the default one, was asked for.
TypeNamePerKindWitness ==
    /\ last.op = "get_type_name_from_instance"
    /\ unwrap(last.err) = Error_from("InvalidArgumentError", MSG_SALT)
    /\ last.out = "cliff3_util::error::InvalidArgumentError"

\* C23: an error made from a message has that message, an error made by
\* default() has the fixed message of its kind, and an error made by
\* default() equals every other one of its kind made by default().
MessageAsBuilt ==
    /\ last.op \in {"from", "new"} => get_message(unwrap(last.err)) = last.arg
    /\ last.op = "default" =>
          get_message(unwrap(last.err)) =
              (CASE unwrap(last.err).kind = "MissingArgumentError" -> "an argument is missing."
                 [] unwrap(last.err).kind = "InvalidArgumentError" -> "the argument is not valid."
                 [] unwrap(last.err).kind = "CryptoError" ->
                      "an error occurred during encryption.")
    /\ (/\ last.op = "eq"
        /\ unwrap(last.err) = Error_default(unwrap(last.err).kind)
        /\ unwrap(last.other) = Error_default(unwrap(last.other).kind)) => last.out = TRUE

\* A CryptoError was made from the message "boom".
MessageAsBuiltWitness ==
    /\ last.op = "from"
    /\ last.arg = "boom"
    /\ unwrap(last.err).kind = "CryptoError"
    /\ get_message(unwrap(last.err)) = "boom"

(***************************************************************************)
(* io_util.rs: DirectoryDateType::generate_path_string                     *)
(***************************************************************************)
DATE_TYPES == {"YYYYMMDD", "YYYYMM", "YYYY"}

Digits == <<"0", "1", "2", "3", "4", "5", "6", "7", "8", "9">>

\* u32::to_string and i32::to_string of a number that is not negative: the
\* decimal digits, no padding.
RECURSIVE to_string(_)
to_string(n) ==
    IF n < 10 THEN <<Digits[n + 1]>> ELSE to_string(n \div 10) \o <<Digits[(n % 10) + 1]>>

\* format!("{:0>2}", x): x right-aligned in two columns, filled with '0'.
format_0_2(x) ==
    IF Len(x) >= 2 THEN x ELSE AsSeq([i \in 1..(2 - Len(x)) |-> "0"]) \o x

\* fn insert_separator(&self, path, separator): path afterwards.
insert_separator(path, separator) ==
    IF ~is_some(separator) THEN path
    ELSE Append(path, unwrap(separator))

\* fn generate_path_string(&self, date, separator), lines 54-70.
generate_path_string(self, date, separator) ==
    LET p1 == <<to_string(date.year)>>
        p2 == insert_separator(p1, separator)
        p3 == IF self # "YYYY" THEN Append(p2, format_0_2(to_string(date.month))) ELSE p2
        p4 == IF self # "YYYY" THEN insert_separator(p3, separator) ELSE p3
        p5 == IF self = "YYYYMMDD" THEN Append(p4, format_0_2(to_string(date.day))) ELSE p4
    IN  join(p5)

\* How many years from 2024 on the callers' dates lie in.
MaxYears == 2

\* Dates of the local clock: the first and the last month, June; the 1st,
\* the 9th, the 26th and the 28th day.
PathDates ==
    [year : 2024..(2024 + MaxYears - 1), month : {1, 6, 12}, day : {1, 9, 26, 28}]

\* No separator, "-", "_", "--" and the empty string.
PathSeparators == {None, Some(<<"-">>), Some(<<"_">>), Some(<<"-", "-">>), Some(<<>>)}

InitPath ==
    /\ env = "ok"
    /\ cfg = [dates |-> PathDates]
    /\ kept = None
    /\ last = [op |-> "none", self |-> "YYYY", date |-> [year |-> 2024, month |-> 1, day |-> 1],
               separator |-> None, out |-> <<>>]

\* A call of generate_path_string.
GeneratePathString ==
    \E self \in DATE_TYPES, date \in cfg.dates, separator \in PathSeparators :
        /\ last' = [op |-> "generate_path_string", self |-> self, date |-> date,
                    separator |-> separator,
                    out |-> generate_path_string(self, date, separator)]
        /\ UNCHANGED <<env, cfg, kept>>

NextPath == GeneratePathString

SpecPath == InitPath /\ [][NextPath]_vars

(***************************************************************************)
(* generate_path_string: properties                                        *)
(***************************************************************************)
\* Two decimal digits of a number below 100.
TwoDigits(n) == <<Digits[(n \div 10) + 1], Digits[(n % 10) + 1]>>

\* Four decimal digits of a number below 10000.
FourDigits(n) == TwoDigits(n \div 100) \o TwoDigits(n % 100)

\* C24: generate_path_string puts the separator between the date components
\* and nowhere else: YYYY gives yyyy, YYYYMM gives yyyy<sep>MM, YYYYMMDD
\* gives yyyy<sep>MM<sep>dd, month and day in two digits; without a
\* separator the components follow each other directly.
SeparatorOnlyBetween ==
    last.op = "generate_path_string" =>
        LET sep == IF is_some(last.separator) THEN unwrap(last.separator) ELSE <<>>
            yyyy == FourDigits(last.date.year)
            mm == TwoDigits(last.date.month)
            dd == TwoDigits(last.date.day)
        IN  last.out = (CASE last.self = "YYYY" -> yyyy
                          [] last.self = "YYYYMM" -> yyyy \o sep \o mm
                          [] last.self = "YYYYMMDD" -> yyyy \o sep \o mm \o sep \o dd)

(***************************************************************************)
(* string_util.rs: the Hangul functions.  A char is its code point, a      *)
(* String the sequence of its chars.                                       *)
(***************************************************************************)
\* U+AC00 and U+D7A3, the first and the last precomposed syllable; U+3131
\* and U+3163, the first and the last compatibility jamo of the tables.
HANGUL_FIRST == 44032

HANGUL_LAST == 55203

JAMO_FIRST == 12593

JAMO_LAST == 12643

\* The 19 initial consonants, as code points of the compatibility jamo.
KO_CONSONANTS ==
    <<12593, 12594, 12596, 12599, 12600, 12601, 12609, 12610, 12611, 12613, 12614, 12615,
      12616, 12617, 12618, 12619, 12620, 12621, 12622>>

\* The initial consonants taken apart (a tense consonant is its plain one twice).
KO_SEPARATED_CONSONANTS ==
    <<<<12593>>, <<12593, 12593>>, <<12596>>, <<12599>>, <<12599, 12599>>, <<12601>>,
      <<12609>>, <<12610>>, <<12610, 12610>>, <<12613>>, <<12613, 12613>>, <<12615>>,
      <<12616>>, <<12616, 12616>>, <<12618>>, <<12619>>, <<12620>>, <<12621>>, <<12622>>>>

\* The 21 vowels.
KO_VOWELS ==
    <<12623, 12624, 12625, 12626, 12627, 12628, 12629, 12630, 12631, 12632, 12633, 12634,
      12635, 12636, 12637, 12638, 12639, 12640, 12641, 12642, 12643>>

\* The vowels taken apart.
KO_SEPARATED_VOWELS ==
    <<<<12623>>, <<12624>>, <<12625>>, <<12626>>, <<12627>>, <<12628>>, <<12629>>,
      <<12630>>, <<12631>>, <<12631, 12623>>, <<12631, 12624>>, <<12631, 12643>>,
      <<12635>>, <<12636>>, <<12636, 12627>>, <<12636, 12628>>, <<12636, 12643>>,
      <<12640>>, <<12641>>, <<12641, 12643>>, <<12643>>>>

\* The 28 final consonants, the first (0 as char) standing for none.
KO_FINAL_CONSONANTS ==
    <<0, 12593, 12594, 12595, 12596, 12597, 12598, 12599, 12601, 12602, 12603, 12604,
      12605, 12606, 12607, 12608, 12609, 12610, 12612, 12613, 12614, 12615, 12616, 12618,
      12619, 12620, 12621, 12622>>

\* The final consonants taken apart.
KO_SEPARATED_FINAL_CONSONANTS ==
    <<<<>>, <<12593>>, <<12593, 12593>>, <<12593, 12613>>, <<12596>>, <<12596, 12616>>,
      <<12596, 12622>>, <<12599>>, <<12601>>, <<12601, 12593>>, <<12601, 12609>>, <<12601,
      12610>>, <<12601, 12613>>, <<12601, 12620>>, <<12601, 12621>>, <<12601, 12622>>,
      <<12609>>, <<12610>>, <<12610, 12613>>, <<12613>>, <<12613, 12613>>, <<12615>>,
      <<12616>>, <<12618>>, <<12619>>, <<12620>>, <<12621>>, <<12622>>>>

\* What a compatibility jamo on its own (U+3131..U+3163) is replaced by.
KO_SEPARATED_FORTES_VOWELS ==
    <<<<12593>>, <<12593, 12593>>, <<12593, 12613>>, <<12596>>, <<12596, 12616>>, <<12596,
      12622>>, <<12599>>, <<12600>>, <<12601>>, <<12601, 12593>>, <<12601, 12609>>,
      <<12601, 12610>>, <<12601, 12613>>, <<12601, 12599>>, <<12601, 12621>>, <<12601,
      12622>>, <<12609>>, <<12610>>, <<12610, 12610>>, <<12610, 12613>>, <<12613>>,
      <<12613, 12613>>, <<12615>>, <<12616>>, <<12616, 12616>>, <<12618>>, <<12619>>,
      <<12620>>, <<12621>>, <<12622>>, <<12623>>, <<12624>>, <<12625>>, <<12626>>,
      <<12627>>, <<12628>>, <<12629>>, <<12630>>, <<12631>>, <<12631, 12623>>, <<12631,
      12624>>, <<12631, 12643>>, <<12635>>, <<12636>>, <<12636, 12627>>, <<12636, 12628>>,
      <<12636, 12643>>, <<12640>>, <<12641>>, <<12641, 12643>>, <<12643>>>>

\* v[i] of a Vec, i from 0.
at(v, i) == v[i + 1]

\* extract_initial_consonant leaving out the chars that are no syllable.
extract_initial_consonant_hangul_only(target) ==
    IF ~is_some(target) THEN Err("MissingArgumentError", MSG_DEFAULT_MISSING, <<>>)
    ELSE LET v == unwrap(target)
             temp(t) == IF t >= HANGUL_FIRST /\ t <= HANGUL_LAST
                        THEN <<at(KO_CONSONANTS, (t - HANGUL_FIRST) \div 588)>>
                        ELSE <<>>
         IN  Ok(join(AsSeq([i \in 1..Len(v) |-> temp(v[i])])), <<>>)

\* fn extract_initial_consonant, lines 212-235; temp(t) is what the loop
\* appends for the char t.
extract_initial_consonant(target) ==
    IF ~is_some(target) THEN Err("MissingArgumentError", MSG_DEFAULT_MISSING, <<>>)
    ELSE LET v == unwrap(target)
             temp(t) == IF t >= HANGUL_FIRST /\ t <= HANGUL_LAST
                        THEN <<at(KO_CONSONANTS, (t - HANGUL_FIRST) \div 588)>>
                        ELSE <<t>>
         IN  Ok(join(AsSeq([i \in 1..Len(v) |-> temp(v[i])])), <<>>)

\* fn separate_simple_consonant_vowel, lines 267-307.
separate_simple_consonant_vowel(target) ==
    IF ~is_some(target) THEN Err("MissingArgumentError", MSG_DEFAULT_MISSING, <<>>)
    ELSE LET v == unwrap(target)
             start == HANGUL_FIRST
             temp(t) ==
                 IF t >= HANGUL_FIRST /\ t <= HANGUL_LAST
                 THEN LET consonant == t - start
                          c2 == consonant % 588
                          c3 == c2 % 28
                      IN  <<at(KO_CONSONANTS, consonant \div 588)>>
                          \o <<at(KO_VOWELS, c2 \div 28)>>
                          \o (IF c3 # 0 THEN <<at(KO_FINAL_CONSONANTS, c3)>> ELSE <<>>)
                 ELSE <<t>>
         IN  Ok(join(AsSeq([i \in 1..Len(v) |-> temp(v[i])])), <<>>)

\* fn separate_consonant_vowel_completely, lines 336-400.
separate_consonant_vowel_completely(target) ==
    IF ~is_some(target) THEN Err("MissingArgumentError", MSG_DEFAULT_MISSING, <<>>)
    ELSE LET v == unwrap(target)
             start == HANGUL_FIRST
             temp(t) ==
                 IF t >= HANGUL_FIRST /\ t <= HANGUL_LAST
                 THEN LET consonant == t - start
                          c2 == consonant % 588
                          c3 == c2 % 28
                      IN  at(KO_SEPARATED_CONSONANTS, consonant \div 588)
                          \o at(KO_SEPARATED_VOWELS, c2 \div 28)
                          \o (IF c3 # 0 THEN at(KO_SEPARATED_FINAL_CONSONANTS, c3) ELSE <<>>)
                 ELSE IF t >= JAMO_FIRST /\ t <= JAMO_LAST
                 THEN at(KO_SEPARATED_FORTES_VOWELS, t - JAMO_FIRST)
                 ELSE <<t>>
         IN  Ok(join(AsSeq([i \in 1..Len(v) |-> temp(v[i])])), <<>>)

\* The longest text of several chars the callers pass.
MaxChars == 2

\* Every precomposed syllable and every compatibility jamo of the tables,
\* the char before and the char after each of the two ranges, 'A' and
\* U+2764.
HangulChars ==
    ((HANGUL_FIRST - 1)..(HANGUL_LAST + 1)) \cup ((JAMO_FIRST - 1)..(JAMO_LAST + 1))
    \cup {65, 10084}

\* U+AC00, U+D7A3, U+AF4A (tense initial, compound vowel, tense final),
\* U+B5D0, U+D565 (final U+313E); the jamo U+3131, U+3138, U+313E, U+3158;
\* 'A' and U+2764.
SampleChars == {44032, 55203, 44874, 46544, 54629, 12593, 12600, 12606, 12632, 65, 10084}

\* No text, every text of one char, and the texts of up to MaxChars of the
\* sample chars.
HangulTargets ==
    {None} \cup {Some(<<c>>) : c \in HangulChars}
    \cup {Some(s) : s \in UNION {[1..n -> SampleChars] : n \in 0..MaxChars}}

\* cfg is the text the caller holds.
InitHangul ==
    /\ env = "ok"
    /\ cfg \in [target : HangulTargets]
    /\ kept = None
    /\ last = [op |-> "none", target |-> None, out |-> Err("none", "", <<>>)]

ExtractInitialConsonant ==
    /\ last' = [op |-> "extract_initial_consonant", target |-> cfg.target,
                out |-> extract_initial_consonant(cfg.target)]
    /\ UNCHANGED <<env, cfg, kept>>

SeparateSimpleConsonantVowel ==
    /\ last' = [op |-> "separate_simple_consonant_vowel", target |-> cfg.target,
                out |-> separate_simple_consonant_vowel(cfg.target)]
    /\ UNCHANGED <<env, cfg, kept>>

SeparateConsonantVowelCompletely ==
    /\ last' = [op |-> "separate_consonant_vowel_completely", target |-> cfg.target,
                out |-> separate_consonant_vowel_completely(cfg.target)]
    /\ UNCHANGED <<env, cfg, kept>>

NextHangul ==
    \/ ExtractInitialConsonant
    \/ SeparateSimpleConsonantVowel
    \/ SeparateConsonantVowelCompletely

SpecHangul == InitHangul /\ [][NextHangul]_vars

(***************************************************************************)
(* The Hangul functions: properties                                        *)
(***************************************************************************)
\* The compatibility jamo that are made of two: the tense consonants, the
\* double final consonants and the compound vowels.
CompoundJamo ==
    {12594, 12595, 12597, 12598, 12600, 12611, 12612, 12614, 12617} \cup (12602..12608)
    \cup {12632, 12633, 12634, 12637, 12638, 12639, 12642}

IsHangul(c) ==
    (c >= HANGUL_FIRST /\ c <= HANGUL_LAST) \/ (c >= JAMO_FIRST /\ c <= JAMO_LAST)

\* C25: separate_consonant_vowel_completely leaves no tense consonant, no
\* compound vowel and no double final consonant in its output, for a
\* syllable and for a jamo on its own alike; a jamo on its own is taken
\* apart as the same jamo of a syllable is (taking the syllables apart into
\* their jamo first changes nothing); every other char is copied.
CompleteDecomposition ==
    (last.op = "separate_consonant_vowel_completely" /\ is_some(last.target)) =>
        LET v == unwrap(last.target)
            out == unwrap(last.out.value)
            Other(c) == ~IsHangul(c)
        IN  /\ \A i \in 1..Len(out) : out[i] \notin CompoundJamo
            /\ out = unwrap(separate_consonant_vowel_completely(
                                separate_simple_consonant_vowel(last.target).value).value)
            /\ SelectSeq(out, Other) = SelectSeq(v, Other)

\* C26: extract_initial_consonant returns as many chars as it was given:
\* for a syllable its initial consonant, the entry (code - U+AC00) / 588 of
\* the table of 19, and every other char itself; without a target it returns
\* MissingArgumentError::default().
InitialConsonantExtracted ==
    last.op = "extract_initial_consonant" =>
        IF ~is_some(last.target)
        THEN /\ last.out.kind = "MissingArgumentError"
             /\ last.out.msg = "an argument is missing."
        ELSE LET v == unwrap(last.target)
                 out == unwrap(last.out.value)
             IN  /\ last.out.kind = "Ok"
                 /\ Len(out) = Len(v)
                 /\ \A i \in 1..Len(v) :
                       IF v[i] >= 44032 /\ v[i] <= 55203
                       THEN LET index == (v[i] - 44032) \div (21 * 28)
                            IN  /\ index < Len(KO_CONSONANTS)
                                /\ Len(KO_CONSONANTS) = 19
                                /\ out[i] = KO_CONSONANTS[index + 1]
                       ELSE out[i] = v[i]

\* The text of U+D7A3 and 'A' gave U+314E and 'A'.
InitialConsonantExtractedWitness ==
    /\ last.op = "extract_initial_consonant"
    /\ last.target = Some(<<55203, 65>>)
    /\ last.out.kind = "Ok"
    /\ unwrap(last.out.value) = <<12622, 65>>

(***************************************************************************)
(* rsa_encrypt_without_key: failures                                       *)
(***************************************************************************)
\* C27: rsa_encrypt_without_key ends with Ok or with CryptoError and with
\* nothing else; a plaintext longer than bytes() - 11 bytes, a failed key
\* generation, a failed PEM export and a failed encryption each give
\* CryptoError, and an Err carries no RSAResult.
RsaEncryptWithoutKeyFailures ==
    IsRsaEncryptWithoutKey =>
        /\ last.out.kind \in {"Ok", "CryptoError"}
        /\ last.out.kind = "CryptoError" => last.out.value = None
        /\ Len(last.target) > bytes(last.bit_size) - 11 => last.out.kind = "CryptoError"
        /\ env \in {"keygen_error", "pub_pem_error", "prv_pem_error", "rsa_error"}
              => last.out.kind = "CryptoError"

\* With the library in working order, a plaintext of 118 bytes was refused
\* under a key of 1024 bits after the key pair had been made and exported.
RsaEncryptWithoutKeyFailuresWitness ==
    /\ IsRsaEncryptWithoutKey
    /\ env = "ok"
    /\ last.bit_size = "B_1024"
    /\ Len(last.target) = 118
    /\ last.out.kind = "CryptoError"
    /\ last.out.msg = MSG_RSA_ENCRYPT
    /\ Len(last.out.calls) = 5

(***************************************************************************)
(* aes_decrypt: the IV                                                     *)
(***************************************************************************)
\* The last call was aes_decrypt of the kept AESResult with the arguments
\* that made it, but for the iv.
DecryptsKeptOtherIv ==
    /\ IsDecrypt
    /\ is_some(kept)
    /\ last.enc_type = unwrap(kept).enc_type
    /\ last.target = Some(unwrap(kept).res.result)
    /\ last.secret = unwrap(kept).secret
    /\ last.salt = unwrap(kept).salt
    /\ last.repeat_count = unwrap(kept).repeat_count
    /\ last.iv # unwrap(kept).res.iv

\* Where aes_decrypt reaches the cipher, the cipher runs under the key of the
\* derivation and the iv of the caller.
CipherUnderCallersIv ==
    (IsDecrypt /\ Len(last.out.calls) = 2) =>
        /\ last.out.calls[2].iv = last.iv
        /\ last.out.calls[2].key =
              bytes_to_key(env, last.enc_type, last.secret, last.salt,
                           as_i32(last.repeat_count)).key

CiphertextLength ==
    (IsEncrypt /\ last.out.kind = "Ok") =>
        LET n == Len(unwrap(last.target))
            c == Len(unwrap(last.out.value).result)
        IN  /\ n > 0
            /\ c = 16 * ((n \div 16) + 1)
            /\ (c % 16) = 0
            /\ c > n

\* A plaintext of 16 bytes gave 32 bytes under AES_256.
CiphertextLengthWitness ==
    /\ IsEncrypt
    /\ last.enc_type = "AES_256"
    /\ last.out.kind = "Ok"
    /\ Len(unwrap(last.target)) = 16
    /\ Len(unwrap(last.out.value).result) = 32

(***************************************************************************)
(* aes_encrypt, aes_decrypt: the cast of repeat_count                      *)
(***************************************************************************)
\* C30: the count handed to bytes_to_key is the caller's repeat_count, for
\* every usize (the cast to i32 neither wraps to a negative nor to a smaller
\* number), and aes_decrypt hands over for a repeat_count what aes_encrypt
\* hands over for it, so that the keys derived are the same.
CountPassedUnchanged ==
    /\ ((IsEncrypt \/ IsDecrypt) /\ Len(last.out.calls) >= 1) =>
          LET count == last.out.calls[1].count
              u == last.repeat_count
          IN  /\ count >= 0
              /\ (count % Limb) = u[1]
              /\ (count \div Limb) = u[2]
              /\ u[3] = 0
              /\ u[4] = 0
    /\ (DecryptsKept /\ Len(last.out.calls) = 2) =>
          LET k == unwrap(kept)
              made == aes_encrypt(env, k.enc_type, k.target, k.secret, k.salt, k.repeat_count)
          IN  /\ last.out.calls[1].count = made.calls[1].count
              /\ last.out.calls[2].key = made.calls[2].key

====
